---- MODULE Spec2Model ----
(***************************************************************************)
(* The CDP WebSocket shim (src/src/logging.test.ts, lines 77-1993): one    *)
(* session per WebSocket, a message listener that dispatches               *)
(* "Domain.command" frames to the domain handlers, and the Puppeteer       *)
(* backend the handlers call.                                              *)
(*                                                                         *)
(* Granularity.  A handler is an async function: it runs without           *)
(* interruption up to its first `await` of a backend call, is suspended    *)
(* while the backend works, and is resumed later.  The message listener    *)
(* does not serialize handlers, so several may be suspended at once.  Each *)
(* command is therefore two actions: X (the frame is received, dispatched  *)
(* and run up to the backend call) and X_resume (the code after the        *)
(* await, up to and including sendResponse/sendError of the listener).     *)
(* A command that awaits nothing is a single action.  The backend's        *)
(* effect is applied when the call is made; whether the call succeeds is   *)
(* chosen then (it cannot succeed on a closed page or browser).            *)
(*                                                                         *)
(* Identifiers.  crypto.randomUUID() is modelled by fresh counters         *)
(* (targetUuid, requestUuid).  The object id `obj-N` is modelled by N.     *)
(* Target id 0, page 0, node id 0 stand for "absent" (undefined / falsy).  *)
(***************************************************************************)
EXTENDS Integers, Sequences, FiniteSets, TLC

\* ---- bounds of the model ------------------------------------------------
MaxFrames == 3      \* inbound frames per connection
MaxTargets == 2     \* targets (and backend pages) ever created
MaxMatches == 2     \* elements a selector can match
MaxRequests == 2    \* requests the pages issue

VARIABLES
  sandbox,          \* the container: its process list, its files, the commands it ran
  call,             \* the gateway function that runs against the sandbox, if any
  access,           \* a request through the Access middleware and the response to it
  upgrade,          \* the GET /cdp exchange: the request and the response to it
  wsState,          \* the server's socket and the session's construction, see below
  console,          \* history: the session-level console.error lines
  browser,          \* "none" | "open" | "closed"
  livePages,        \* backend pages that are open
  pageCounter,      \* pages the backend has created so far
  targetUuid,       \* target ids drawn so far from crypto.randomUUID()
  pages,            \* session.pages: targetId -> page
  defaultTargetId,  \* session.defaultTargetId (0 before construction)
  nodeIdCounter,    \* session.nodeIdCounter
  nodeMap,          \* session.nodeMap: nodeId -> selector
  objectIdCounter,  \* session.objectIdCounter
  objectMap,        \* session.objectMap: objectId -> kind of the stored value
  requestInterceptionEnabled,
  pendingRequests,  \* session.pendingRequests: requestId -> raw request
  requestUuid,      \* request ids drawn so far from crypto.randomUUID()
  listeners,        \* page -> sequence of 'request' listeners (their pattern lists)
  intercepting,     \* pages with page.setRequestInterception(true)
  raw,              \* the backend's requests: [page, url, state, reason, errorReason]
  dialogs,          \* page -> sequence of 'dialog' listeners
  opened,           \* history: the dialogs that opened and how they were answered
  sent,             \* frames written to the socket, in order
  inflight,         \* suspended handlers (continuations)
  frameCounter,     \* request frames received so far; the n-th frame has id n
  nodeLog,          \* history: node ids in allocation order
  objectLog         \* history: object ids in allocation order

sessVars == <<pages, defaultTargetId, nodeIdCounter, nodeMap, objectIdCounter,
              objectMap, requestInterceptionEnabled, pendingRequests, requestUuid,
              targetUuid>>
backVars == <<browser, livePages, pageCounter, listeners, intercepting, raw, dialogs, opened>>
histVars == <<frameCounter, nodeLog, objectLog>>
workerVars == <<sandbox, call, access>>
cdpVars == <<upgrade, wsState, console, sent, inflight, sessVars, backVars, histVars>>
vars == <<workerVars, cdpVars>>

\* wsState:
\*   "none"         no socket yet (the GET /cdp request is not answered)
\*   "accepted"     server.accept() done, initCDPSession awaits the browser
\*   "closed early" the peer closed the socket while initCDPSession awaits
\*   "open"         the session is built and its listeners are attached
\*   "closed"       the socket is closed (by the peer, or found closed)
\*   "closed 1011"  the server closed the socket with code 1011
\* console records the lines of 476, 489 and 511; the line of 499 is not
\* recorded, the error frame of the same handler shows it.

domVars == <<nodeIdCounter, nodeMap, nodeLog>>
objVars == <<objectIdCounter, objectMap, objectLog>>
fetchVars == <<requestInterceptionEnabled, pendingRequests, requestUuid, listeners,
               intercepting, raw>>
targetVars == <<pages, defaultTargetId, targetUuid, browser, livePages, pageCounter>>

\* ---- helpers --------------------------------------------------------------
EmptyMap == [x \in {} |-> 0]

MapSet(m, k, v) == [x \in DOMAIN m \cup {k} |-> IF x = k THEN v ELSE m[x]]

MapDelete(m, k) == [x \in DOMAIN m \ {k} |-> m[x]]

Range(s) == {s[i] : i \in DOMAIN s}

\* an outbound frame; `by` is the frame id of the handler that wrote it (0: none)
Frame(kind, id, what, ref, by) ==
  [kind |-> kind, id |-> id, what |-> what, ref |-> ref, by |-> by]

\* a suspended handler: the command, the page it runs on, whether the awaited
\* backend call succeeds, and the command's arguments
Cont(id, cmd, page, ok, a, s) ==
  [id |-> id, cmd |-> cmd, page |-> page, ok |-> ok, a |-> a, s |-> s]

\* ws.send: nothing reaches the wire once the socket is closed
Send(fs) == IF wsState = "open" THEN sent \o fs ELSE sent

sendResponse(id, what, ref) == Frame("result", id, what, ref, id)

sendError(id, message, ref) == Frame("error", id, message, ref, id)

sendEvent(method, ref, by) == Frame("event", 0, method, ref, by)

\* how a handler ends: it returns a result or throws an error
Returned(what, ref) == [threw |-> FALSE, what |-> what, ref |-> ref]

Thrown(message, ref) == [threw |-> TRUE, what |-> message, ref |-> ref]

\* the message listener, lines 495-501: the frames written for a handler that
\* ended with outcome o
ListenerDropsErrors(id, o) ==
  IF o.threw THEN <<>> ELSE <<sendResponse(id, o.what, o.ref)>>
Listener(id, o) ==
  IF o.threw THEN <<sendError(id, o.what, o.ref)>>
  ELSE <<sendResponse(id, o.what, o.ref)>>

\* a backend call on page p can succeed only while the browser and p are open
PageLive(p) == browser = "open" /\ p \in livePages

Outcomes(p) == IF PageLive(p) THEN BOOLEAN ELSE {FALSE}

\* handleCDPMethod, lines 533-534: params.targetId || session.defaultTargetId
ResolveTarget(t) == IF t # 0 THEN t ELSE defaultTargetId

PageOfFallsBack(t) ==
  IF ResolveTarget(t) \in DOMAIN pages THEN pages[ResolveTarget(t)]
  ELSE IF defaultTargetId \in DOMAIN pages THEN pages[defaultTargetId] ELSE 0
PageOf(t) == IF ResolveTarget(t) \in DOMAIN pages THEN pages[ResolveTarget(t)] ELSE 0

TargetParams == 0..MaxTargets

\* the message listener fires: a frame can be received
CanReceive == wsState = "open" /\ frameCounter < MaxFrames

NewId == frameCounter + 1

\* the handler ended before any await: the listener answers at once
Answer(o) == /\ frameCounter' = NewId
             /\ sent' = Send(Listener(NewId, o))
             /\ inflight' = inflight

\* the handler called the backend and is suspended until the call settles
Suspend(cmd, p, a, s, ok) ==
  /\ frameCounter' = NewId
  /\ inflight' = inflight \cup {Cont(NewId, cmd, p, ok, a, s)}
  /\ sent' = sent

\* the handler of c is resumed, writes the events es, ends with outcome o, and
\* the listener answers
Finish(c, es, o) == /\ inflight' = inflight \ {c}
                    /\ sent' = Send(es \o Listener(c.id, o))

\* ---- GET /cdp: the upgrade route and its secret check ----------------------
MaxSecretLen == 2   \* characters of a secret

\* a secret is a sequence of UTF-16 code units ('a', 'b'); a query parameter or
\* an environment variable may also be missing
CharCodes == {97, 98}
Texts == UNION {[1..n -> CharCodes] : n \in 0..MaxSecretLen}
Secrets == [given : {TRUE}, text : Texts] \cup {[given |-> FALSE, text |-> <<>>]}

\* the bitwise ^ and | of two non-negative integers
RECURSIVE BitXor(_, _)
BitXor(x, y) ==
  IF x = 0 /\ y = 0 THEN 0
  ELSE (((x % 2) + (y % 2)) % 2) + 2 * BitXor(x \div 2, y \div 2)

BitOrKeepsRight(x, y) == y
RECURSIVE BitOr(_, _)
BitOr(x, y) ==
  IF x = 0 /\ y = 0 THEN 0
  ELSE (IF (x % 2) = 1 \/ (y % 2) = 1 THEN 1 ELSE 0) + 2 * BitOr(x \div 2, y \div 2)

\* lines 1986-1989: the loop from index i on; acc.steps counts its iterations
RECURSIVE CompareLoopEarlyExit(_, _, _, _)
CompareLoopEarlyExit(a, b, i, acc) ==
  IF i > Len(a) \/ acc.result # 0 THEN acc
  ELSE CompareLoopEarlyExit(a, b, i + 1,
         [result |-> BitOr(acc.result, BitXor(a[i], b[i])), steps |-> acc.steps + 1])
RECURSIVE CompareLoop(_, _, _, _)
CompareLoop(a, b, i, acc) ==
  IF i > Len(a) THEN acc
  ELSE CompareLoop(a, b, i + 1,
         [result |-> BitOr(acc.result, BitXor(a[i], b[i])), steps |-> acc.steps + 1])

\* lines 1981-1991: the verdict, and the number of comparison steps taken
timingSafeEqual(a, b) ==
  IF Len(a) # Len(b) THEN [equal |-> FALSE, steps |-> 0]
  ELSE LET acc == CompareLoop(a, b, 1, [result |-> 0, steps |-> 0])
       IN [equal |-> acc.result = 0, steps |-> acc.steps]

\* line 234: !expectedSecret is true for an unset and for an empty CDP_SECRET
Configured(expected) == expected.given /\ expected.text # <<>>

\* line 244: !(!providedSecret || !timingSafeEqual(providedSecret, expectedSecret))
AuthorizedWhenMissing(provided, expected) ==
  \/ ~provided.given
  \/ timingSafeEqual(provided.text, expected.text).equal
Authorized(provided, expected) ==
  /\ provided.given /\ provided.text # <<>>
  /\ timingSafeEqual(provided.text, expected.text).equal

\* the request of the upgrade route: the Upgrade header, ?secret=, CDP_SECRET and
\* the BROWSER binding
Request(header, provided, expected, binding) ==
  [header |-> header, provided |-> provided, expected |-> expected,
   binding |-> binding, status |-> 0, compared |-> FALSE, equal |-> FALSE, steps |-> 0]

\* lines 142-275: the status the route answers with, and what the comparison
\* did when the route reached it
Respond(u) ==
  LET calls == u.header /\ Configured(u.expected)
                 /\ u.provided.given /\ u.provided.text # <<>>
      cmp == timingSafeEqual(u.provided.text, u.expected.text)
      status == IF ~u.header THEN 200
                ELSE IF ~Configured(u.expected) THEN 503
                ELSE IF ~Authorized(u.provided, u.expected) THEN 401
                ELSE IF ~u.binding THEN 503
                ELSE 101
  IN [u EXCEPT !.status = status,
               !.compared = calls,
               !.equal = calls /\ cmp.equal,
               !.steps = IF calls THEN cmp.steps ELSE 0]

\* ---- the gateway process in the sandbox (findExistingMoltbotProcess) --------
MaxProcesses == 2   \* processes the sandbox lists

\* a command line is a sequence of words: an optional startup script, then an
\* optional program with its subcommand
Scripts == {"start-openclaw.sh", "start-moltbot.sh"}
Programs == {"openclaw", "clawdbot"}
Subcommands == {"gateway", "devices", "--version", "onboard"}
Commands ==
  {s \o p : s \in {<<>>} \cup {<<w>> : w \in Scripts},
            p \in {<<>>} \cup {<<a, b>> : a \in Programs, b \in Subcommands}}
Statuses == {"starting", "running", "completed"}
Processes == [command : Commands, status : Statuses]
ProcessLists == UNION {[1..n -> Processes] : n \in 0..MaxProcesses}

\* proc.command.includes(marker): the words of the marker, in a row
CommandIncludes(command, marker) ==
  \E i \in 0..(Len(command) - Len(marker)) :
    SubSeq(command, i + 1, i + Len(marker)) = marker

\* part_001 lines 19-24
IsGatewayProcess(command) ==
  \/ CommandIncludes(command, <<"start-openclaw.sh">>)
  \/ CommandIncludes(command, <<"openclaw", "gateway">>)
  \/ CommandIncludes(command, <<"start-moltbot.sh">>)
  \/ CommandIncludes(command, <<"clawdbot", "gateway">>)

\* part_001 lines 25-30
NoCliCommand(command) == FALSE
IsCliCommand(command) ==
  \/ CommandIncludes(command, <<"openclaw", "devices">>)
  \/ CommandIncludes(command, <<"openclaw", "--version">>)
  \/ CommandIncludes(command, <<"openclaw", "onboard">>)
  \/ CommandIncludes(command, <<"clawdbot", "devices">>)
  \/ CommandIncludes(command, <<"clawdbot", "--version">>)

\* part_001 line 33
StartingOrRunning(status) == status = "starting" \/ status = "running"

\* part_001 lines 16-37: the loop from index i on; the process returned is
\* named by its index in the list, 0 is null
RECURSIVE ScanProcesses(_, _)
ScanProcesses(processes, i) ==
  IF i > Len(processes) THEN 0
  ELSE IF /\ IsGatewayProcess(processes[i].command)
          /\ ~IsCliCommand(processes[i].command)
          /\ StartingOrRunning(processes[i].status)
  THEN i
  ELSE ScanProcesses(processes, i + 1)

NoCall == [op |-> "none"]
\* a fresh container: no process, no file, no command run yet
EmptySandbox ==
  [processes |-> <<>>, flag |-> FALSE, config |-> "none", lastSync |-> "none",
   execd |-> <<>>]
NoAccess == [pc |-> "none"]
NoWorker == sandbox = EmptySandbox /\ call = NoCall /\ access = NoAccess

\* part_001 lines 14-15: sandbox.listProcesses() is awaited; it resolves to the
\* list or rejects
findExistingMoltbotProcess ==
  /\ call.op = "none"
  /\ \E ok \in BOOLEAN :
       call' = [op |-> "findExistingMoltbotProcess", pc |-> "listProcesses",
                listed |-> IF ok THEN sandbox.processes ELSE <<>>,
                threw |-> ~ok, result |-> 0]
  /\ UNCHANGED <<sandbox, access, cdpVars>>

\* part_001 lines 16-41
findExistingMoltbotProcess_resume ==
  /\ call.op = "findExistingMoltbotProcess"
  /\ call.pc = "listProcesses"
  /\ call' = [call EXCEPT !.pc = "returned",
                          !.result = IF call.threw THEN 0
                                     ELSE ScanProcesses(call.listed, 1)]
  /\ UNCHANGED <<sandbox, access, cdpVars>>

\* ---- waiting for a process (waitForProcess) -----------------------------------
MaxTimeout == 4     \* the longest timeoutMs, in the unit of pollIntervalMs

Timeouts == 0..MaxTimeout

\* the callers pass no pollIntervalMs (api.ts lines 45, 101, 137, 168, debug.ts
\* lines 135, 363), so the interval is the positive default; the model lets it
\* be one or two units
PollIntervals == {1, 2}

\* part_002 line 17: Math.ceil(timeoutMs / pollIntervalMs), pollIntervalMs > 0
Ceil(timeoutMs, pollIntervalMs) == (timeoutMs + pollIntervalMs - 1) \div pollIntervalMs

\* part_002 line 20: the loop's condition
KeepsPollingOneMore(currentStatus, attempts, maxAttempts) ==
  currentStatus \in {"running", "starting"} /\ attempts <= maxAttempts
KeepsPolling(currentStatus, attempts, maxAttempts) ==
  currentStatus \in {"running", "starting"} /\ attempts < maxAttempts

\* part_002 lines 17-20: up to the first await, or to the return when the loop
\* is not entered
waitForProcess ==
  /\ call.op = "none"
  /\ \E status \in Statuses, getStatus \in BOOLEAN,
        timeoutMs \in Timeouts, pollIntervalMs \in PollIntervals :
       LET maxAttempts == Ceil(timeoutMs, pollIntervalMs) IN
       call' = [op |-> "waitForProcess",
                pc |-> IF KeepsPolling(status, 0, maxAttempts)
                       THEN "setTimeout" ELSE "returned",
                proc |-> [status |-> status, getStatus |-> getStatus],
                timeoutMs |-> timeoutMs, pollIntervalMs |-> pollIntervalMs,
                maxAttempts |-> maxAttempts, attempts |-> 0,
                currentStatus |-> status]
  /\ UNCHANGED <<sandbox, access, cdpVars>>

\* part_002 lines 24-26 and 20: the status is taken, the attempt is counted and
\* the loop's condition is tested again
Refreshed(status) ==
  [call EXCEPT !.currentStatus = status,
               !.attempts = @ + 1,
               !.pc = IF KeepsPolling(status, call.attempts + 1, call.maxAttempts)
                      THEN "setTimeout" ELSE "returned"]

\* part_002 lines 22-24: the timer fires; proc.getStatus() is called when the
\* process has one, otherwise the snapshot proc.status is read again
waitForProcess_setTimeout ==
  /\ call.op = "waitForProcess"
  /\ call.pc = "setTimeout"
  /\ call' = IF call.proc.getStatus THEN [call EXCEPT !.pc = "getStatus"]
             ELSE Refreshed(call.proc.status)
  /\ UNCHANGED <<sandbox, access, cdpVars>>

\* part_002 line 24: proc.getStatus() resolves to the process's status now, or
\* it rejects and waitForProcess rejects with it
waitForProcess_getStatus ==
  /\ call.op = "waitForProcess"
  /\ call.pc = "getStatus"
  /\ \/ \E status \in Statuses : call' = Refreshed(status)
     \/ call' = [call EXCEPT !.pc = "rejected"]
  /\ UNCHANGED <<sandbox, access, cdpVars>>

\* ---- the backup to R2 (syncToR2, ensureRcloneConfig) -------------------------
\* sandbox.exec resolves with success or with a failure (a non-zero exit), or
\* it rejects
ExecOutcomes == {"ok", "failed", "rejected"}

\* the environment: which of R2_ACCESS_KEY_ID, R2_SECRET_ACCESS_KEY and
\* CF_ACCOUNT_ID are set
R2Envs == [R2_ACCESS_KEY_ID : BOOLEAN, R2_SECRET_ACCESS_KEY : BOOLEAN,
           CF_ACCOUNT_ID : BOOLEAN]

\* sync.test.ts line 174
HasCredentials(env) ==
  env.R2_ACCESS_KEY_ID /\ env.R2_SECRET_ACCESS_KEY /\ env.CF_ACCOUNT_ID

\* what a command prints
Stdout(cmd, out) ==
  IF out # "ok" THEN ""
  ELSE IF cmd = "test -f flag" THEN (IF sandbox.flag THEN "yes" ELSE "no")
  ELSE IF cmd = "test -f config" THEN sandbox.config
  ELSE ""

\* the container after the command ran
Ran(cmd, out) ==
  [sandbox EXCEPT
     !.execd = Append(@, [cmd |-> cmd, out |-> out, stdout |-> Stdout(cmd, out)]),
     !.flag = IF cmd = "touch flag" /\ out = "ok" THEN TRUE ELSE @,
     !.lastSync = IF cmd = "date > last-sync" /\ out = "ok" THEN "new" ELSE @]

\* `await sandbox.exec(cmd)` (or writeFile): the function is suspended at it
Exec(cmd) ==
  \E out \in ExecOutcomes :
    /\ sandbox' = Ran(cmd, out)
    /\ call' = [call EXCEPT !.pc = cmd, !.out = out, !.stdout = Stdout(cmd, out)]

\* the function returns a SyncResult
Return(success, error) ==
  /\ call' = [call EXCEPT !.pc = "returned", !.success = success, !.error = error]
  /\ sandbox' = sandbox

\* the awaited call rejected: so does the function
Reject ==
  /\ call' = [call EXCEPT !.pc = "rejected"]
  /\ sandbox' = sandbox

\* the function is resumed from the await of cmd
Resumed(cmd) == call.op = "syncToR2" /\ call.pc = cmd

\* sync.ts lines 38-41 and sync.test.ts lines 173-181
syncToR2 ==
  /\ call.op = "none"
  /\ \E env \in R2Envs :
       LET started == [op |-> "syncToR2", pc |-> "called", env |-> env, out |-> "ok",
                       stdout |-> "", success |-> FALSE, error |-> ""]
       IN IF ~HasCredentials(env)
          THEN /\ call' = [started EXCEPT !.pc = "returned",
                                          !.error = "R2 storage is not configured"]
               /\ sandbox' = sandbox
          ELSE \E out \in ExecOutcomes :
                 /\ sandbox' = Ran("test -f flag", out)
                 /\ call' = [started EXCEPT !.pc = "test -f flag", !.out = out,
                                            !.stdout = Stdout("test -f flag", out)]
  /\ UNCHANGED <<access, cdpVars>>

\* sync.test.ts lines 182-197; then sync.ts lines 43 and 24-27
ensureRcloneConfig_check ==
  /\ Resumed("test -f flag")
  /\ IF call.out = "rejected" THEN Reject
     ELSE IF call.stdout = "yes" THEN Exec("test -f config")
     ELSE Exec("mkdir")
  /\ UNCHANGED <<access, cdpVars>>

\* sync.test.ts line 198
ensureRcloneConfig_mkdir ==
  /\ Resumed("mkdir")
  /\ IF call.out = "rejected" THEN Reject ELSE Exec("writeFile")
  /\ UNCHANGED <<access, cdpVars>>

\* sync.test.ts line 199
ensureRcloneConfig_writeFile ==
  /\ Resumed("writeFile")
  /\ IF call.out = "rejected" THEN Reject ELSE Exec("touch flag")
  /\ UNCHANGED <<access, cdpVars>>

\* sync.test.ts lines 201-202; then sync.ts lines 43 and 24-27
ensureRcloneConfig_touch ==
  /\ Resumed("touch flag")
  /\ IF call.out = "rejected" THEN Reject ELSE Exec("test -f config")
  /\ UNCHANGED <<access, cdpVars>>

\* sync.ts lines 28-31
ConfigDir(stdout) ==
  IF stdout = "openclaw" THEN "/root/.openclaw"
  ELSE IF stdout = "clawdbot" THEN "/root/.clawdbot"
  ELSE ""

\* sync.ts lines 28-31 and 43-58
detectConfigDir_resume ==
  /\ Resumed("test -f config")
  /\ IF call.out = "rejected" THEN Reject
     ELSE IF ConfigDir(call.stdout) = ""
     THEN Return(FALSE, "Sync aborted: no config file found")
     ELSE Exec("rclone sync config")
  /\ UNCHANGED <<access, cdpVars>>

\* sync.ts line 59: `!configResult.success`
ConfigSyncedAlways(out) == TRUE
ConfigSynced(out) == out = "ok"

\* sync.ts lines 59-71
syncToR2_config ==
  /\ Resumed("rclone sync config")
  /\ IF call.out = "rejected" THEN Reject
     ELSE IF ~ConfigSynced(call.out) THEN Return(FALSE, "Config sync failed")
     ELSE Exec("rclone sync workspace")
  /\ UNCHANGED <<access, cdpVars>>

\* sync.ts lines 74-77
syncToR2_workspace ==
  /\ Resumed("rclone sync workspace")
  /\ IF call.out = "rejected" THEN Reject ELSE Exec("rclone sync skills")
  /\ UNCHANGED <<access, cdpVars>>

\* sync.ts line 80
syncToR2_skills ==
  /\ Resumed("rclone sync skills")
  /\ IF call.out = "rejected" THEN Reject ELSE Exec("date > last-sync")
  /\ UNCHANGED <<access, cdpVars>>

\* sync.ts line 81
syncToR2_date ==
  /\ Resumed("date > last-sync")
  /\ IF call.out = "rejected" THEN Reject ELSE Exec("cat last-sync")
  /\ UNCHANGED <<access, cdpVars>>

\* sync.ts lines 82-84
syncToR2_cat ==
  /\ Resumed("cat last-sync")
  /\ IF call.out = "rejected" THEN Reject ELSE Return(TRUE, "")
  /\ UNCHANGED <<access, cdpVars>>

\* ---- starting the gateway (ensureMoltbotGateway) -------------------------------
MaxCalls == 2       \* concurrent calls of ensureMoltbotGateway

\* the calls in progress: each is idle, suspended at an await, or ended
Idle == [pc |-> "idle", out |-> "ok", listed |-> <<>>, existing |-> 0, started |-> 0,
         outcome |-> "", result |-> 0]

Callers == IF call.op = "ensureMoltbotGateway" THEN call.of ELSE [i \in 1..MaxCalls |-> Idle]

At(i, pc) == call.op \in {"none", "ensureMoltbotGateway"} /\ Callers[i].pc = pc

Becomes(i, caller) ==
  call' = [op |-> "ensureMoltbotGateway", of |-> [Callers EXCEPT ![i] = caller]]

\* part_001 line 94
StartupCommand == <<"start-openclaw.sh">>

\* part_001 line 59: ensureRcloneConfig is awaited; taken as one step, it leaves
\* the flag file in a container that has the credentials, or it rejects
ensureMoltbotGateway(i) ==
  /\ At(i, "idle")
  /\ \E configured \in BOOLEAN, out \in ExecOutcomes :
       /\ sandbox' = [sandbox EXCEPT !.flag = @ \/ (configured /\ out = "ok")]
       /\ Becomes(i, [Idle EXCEPT !.pc = "ensureRcloneConfig",
                                   !.out = IF configured THEN out ELSE "ok"])
  /\ UNCHANGED <<access, cdpVars>>

\* part_001 lines 62 and 14-15: sandbox.listProcesses() is awaited
ensureMoltbotGateway_listProcesses(i) ==
  /\ At(i, "ensureRcloneConfig")
  /\ IF Callers[i].out = "rejected"
     THEN Becomes(i, [Callers[i] EXCEPT !.pc = "rejected"])
     ELSE \E ok \in BOOLEAN :
            Becomes(i, [Callers[i] EXCEPT
                          !.pc = "listProcesses",
                          !.listed = IF ok THEN sandbox.processes ELSE <<>>])
  /\ UNCHANGED <<sandbox, access, cdpVars>>

\* part_001 lines 93-103: sandbox.startProcess(command) is awaited; the
\* container starts the process, or the call rejects
StartProcess(i) ==
  \E ok \in (IF Len(sandbox.processes) < MaxProcesses THEN BOOLEAN ELSE {FALSE}) :
    /\ sandbox' = IF ok
                  THEN [sandbox EXCEPT !.processes =
                          Append(@, [command |-> StartupCommand, status |-> "starting"])]
                  ELSE sandbox
    /\ Becomes(i, [Callers[i] EXCEPT
                     !.pc = "startProcess",
                     !.started = IF ok THEN Len(sandbox.processes) + 1 ELSE 0])

\* part_001 lines 16-41 and 63-76: the listed processes are scanned; a gateway
\* that is starting or running is waited for on the port, otherwise a new one
\* is started
ensureMoltbotGateway_existing(i) ==
  /\ At(i, "listProcesses")
  /\ LET existing == ScanProcesses(Callers[i].listed, 1) IN
       IF existing # 0
       THEN /\ Becomes(i, [Callers[i] EXCEPT !.pc = "waitForPort",
                                             !.existing = existing])
            /\ sandbox' = sandbox
       ELSE StartProcess(i)
  /\ UNCHANGED <<access, cdpVars>>

\* proc.waitForPort(MOLTBOT_PORT, {timeout: STARTUP_TIMEOUT_MS}): it resolves
\* when the port of a live process answers and rejects when the timeout has
\* elapsed
WaitForPortOutcomes(k) ==
  IF StartingOrRunning(sandbox.processes[k].status) THEN {"ready", "timeout"}
  ELSE {"timeout"}

\* part_001 lines 76-84: the existing process is returned, or after the
\* timeout existingProcess.kill() is awaited
ensureMoltbotGateway_waitForPort(i) ==
  /\ At(i, "waitForPort")
  /\ \E outcome \in WaitForPortOutcomes(Callers[i].existing) :
       IF outcome = "ready"
       THEN /\ Becomes(i, [Callers[i] EXCEPT !.pc = "returned",
                                             !.outcome = outcome,
                                             !.result = Callers[i].existing])
            /\ sandbox' = sandbox
       ELSE \E ok \in BOOLEAN :
              /\ sandbox' = IF ok
                            THEN [sandbox EXCEPT
                                    !.processes[Callers[i].existing].status = "killed"]
                            ELSE sandbox
              /\ Becomes(i, [Callers[i] EXCEPT !.pc = "kill", !.outcome = outcome])
  /\ UNCHANGED <<access, cdpVars>>

\* part_001 lines 85-103: whether the kill succeeded or not, a new gateway is
\* started
ensureMoltbotGateway_kill(i) ==
  /\ At(i, "kill")
  /\ StartProcess(i)
  /\ UNCHANGED <<access, cdpVars>>

\* part_001 lines 104-113: the rejection of startProcess is rethrown; the new
\* process is waited for on the port
ensureMoltbotGateway_startProcess(i) ==
  /\ At(i, "startProcess")
  /\ Becomes(i, [Callers[i] EXCEPT
                   !.pc = IF Callers[i].started = 0 THEN "rejected"
                          ELSE "waitForPort started"])
  /\ UNCHANGED <<sandbox, access, cdpVars>>

\* part_001 lines 113-137: the new process is returned, or the call rejects
ensureMoltbotGateway_started(i) ==
  /\ At(i, "waitForPort started")
  /\ \E outcome \in WaitForPortOutcomes(Callers[i].started) :
       Becomes(i, [Callers[i] EXCEPT
                     !.pc = IF outcome = "ready" THEN "returned" ELSE "rejected",
                     !.outcome = outcome,
                     !.result = IF outcome = "ready" THEN Callers[i].started ELSE 0])
  /\ UNCHANGED <<sandbox, access, cdpVars>>

\* the container: a process that is starting comes to run, and a process ends
ProcessChanges(k) ==
  /\ call.op \in {"none", "ensureMoltbotGateway"}
  /\ k \in 1..Len(sandbox.processes)
  /\ \/ /\ sandbox.processes[k].status = "starting"
        /\ sandbox' = [sandbox EXCEPT !.processes[k].status = "running"]
     \/ /\ StartingOrRunning(sandbox.processes[k].status)
        /\ sandbox' = [sandbox EXCEPT !.processes[k].status = "completed"]
  /\ UNCHANGED <<call, access, cdpVars>>

\* ---- the Access middleware (createAccessMiddleware) ---------------------------
MaxCookies == 2     \* cookies of the Cookie header

\* a string is "" when the variable, header or cookie is absent or empty: both
\* are falsy
Flags == {"", "true", "false"}
Domains == {"", "team.cloudflareaccess.com"}
Audiences == {"", "aud"}
CookieNames == {"other", "CF_Authorization"}
CookieHeaders ==
  UNION {[1..n -> [name : CookieNames, value : {"", "cookie.jwt"}]] : n \in 0..MaxCookies}
ResponseTypes == {"json", "html"}
Redirects == {"absent", "true", "false"}

\* lines 18-20 and 25-27
isDevMode(env) == env.DEV_MODE = "true"

isE2ETestMode(env) == env.E2E_TEST_MODE = "true"

\* lines 34-38: the value of the first cookie named CF_Authorization
RECURSIVE jwtCookie(_, _)
jwtCookie(cookies, i) ==
  IF i > Len(cookies) THEN ""
  ELSE IF cookies[i].name = "CF_Authorization" THEN cookies[i].value
  ELSE jwtCookie(cookies, i + 1)

\* line 40: jwtHeader || jwtCookie || null
extractJWT(req) == IF req.header # "" THEN req.header ELSE jwtCookie(req.cookies, 1)

\* line 63: `!teamDomain || !expectedAud`
AccessConfiguredEither(env) == env.CF_ACCESS_TEAM_DOMAIN # "" \/ env.CF_ACCESS_AUD # ""
AccessConfigured(env) == env.CF_ACCESS_TEAM_DOMAIN # "" /\ env.CF_ACCESS_AUD # ""

\* line 50: redirectOnMissing = false by default
RedirectOnMissing(options) == options.redirectOnMissing = "true"

AccessRequests ==
  [env : [DEV_MODE : Flags, E2E_TEST_MODE : {"", "true"},
          CF_ACCESS_TEAM_DOMAIN : Domains, CF_ACCESS_AUD : Audiences],
   req : [header : {"", "header.jwt"}, cookies : CookieHeaders],
   options : [type : ResponseTypes, redirectOnMissing : Redirects]]

\* the middleware has returned: the response it made, whether next() ran
Responded(a, status, body, nextCalled) ==
  [a EXCEPT !.pc = "returned", !.status = status, !.body = body,
            !.nextCalled = nextCalled]

\* lines 52-117: up to the await of verifyAccessJWT. next() resolves with the
\* downstream response or rejects.
accessMiddleware ==
  /\ access.pc = "called"
  /\ IF isDevMode(access.env) \/ isE2ETestMode(access.env)
     THEN \E ok \in BOOLEAN :
            access' = IF ok THEN Responded(access, 200, "downstream", TRUE)
                      ELSE [Responded(access, 0, "", TRUE) EXCEPT !.pc = "rejected"]
     ELSE IF ~AccessConfigured(access.env)
     THEN access' = Responded(access, 500, "not configured", FALSE)
     ELSE IF extractJWT(access.req) = ""
     THEN IF access.options.type = "html" /\ RedirectOnMissing(access.options)
          THEN access' = Responded(access, 302, "redirect", FALSE)
          ELSE access' = Responded(access, 401, "missing", FALSE)
     ELSE \E ok \in BOOLEAN :
            access' = [access EXCEPT !.pc = "verifyAccessJWT",
                                     !.jwt = extractJWT(access.req),
                                     !.verified = IF ok THEN "ok" ELSE "failed"]
  /\ UNCHANGED <<sandbox, call, cdpVars>>

\* lines 120-149: next() only after the verification; the catch also takes
\* what next() throws
accessMiddleware_resume ==
  /\ access.pc = "verifyAccessJWT"
  /\ IF access.verified = "ok"
     THEN \E ok \in BOOLEAN :
            access' = IF ok THEN Responded(access, 200, "downstream", TRUE)
                      ELSE Responded(access, 401, "invalid", TRUE)
     ELSE access' = Responded(access, 401, "invalid", FALSE)
  /\ UNCHANGED <<sandbox, call, cdpVars>>

\* ---- session construction and teardown (initCDPSession) -------------------
\* console.error: the line, and (history) how many request frames had been
\* received when it was written
Log(line) == [line |-> line, at |-> frameCounter]

\* lines 453 and 455: both counters start at 1
InitialCounter == 1

\* no session yet; the fields of the session are set by initCDPSession
NoSession ==
  /\ browser = "none"
  /\ livePages = {}
  /\ pageCounter = 0
  /\ targetUuid = 0
  /\ pages = EmptyMap
  /\ defaultTargetId = 0
  /\ nodeIdCounter = InitialCounter
  /\ nodeMap = EmptyMap
  /\ objectIdCounter = InitialCounter
  /\ objectMap = EmptyMap
  /\ requestInterceptionEnabled = FALSE
  /\ pendingRequests = EmptyMap
  /\ requestUuid = 0
  /\ listeners = EmptyMap
  /\ intercepting = {}
  /\ raw = <<>>
  /\ dialogs = EmptyMap
  /\ opened = <<>>
  /\ console = <<>>
  /\ sent = <<>>
  /\ inflight = {}
  /\ frameCounter = 0
  /\ nodeLog = <<>>
  /\ objectLog = <<>>

\* a client is about to send GET /cdp
InitUpgrade ==
  /\ \E header, binding \in BOOLEAN, provided, expected \in Secrets :
       upgrade = Request(header, provided, expected, binding)
  /\ wsState = "none"
  /\ NoSession
  /\ NoWorker

\* the route has accepted the socket of a client that gave the right secret
Init ==
  /\ upgrade = Respond(Request(TRUE, [given |-> TRUE, text |-> <<97>>],
                               [given |-> TRUE, text |-> <<97>>], TRUE))
  /\ wsState = "accepted"
  /\ NoSession
  /\ NoWorker

\* lines 142-275: the route answers; server.accept() on status 101
cdp_get ==
  /\ wsState = "none"
  /\ upgrade.status = 0
  /\ upgrade' = Respond(upgrade)
  /\ wsState' = IF upgrade'.status = 101 THEN "accepted" ELSE "none"
  /\ UNCHANGED <<workerVars, console, sent, inflight, sessVars, backVars, histVars>>

\* the peer closes the socket while puppeteer.launch or newPage is awaited: no
\* close listener is attached yet (it is attached at line 505)
EarlyClose ==
  /\ wsState = "accepted"
  /\ wsState' = "closed early"
  /\ UNCHANGED <<workerVars, upgrade, console, sent, inflight, sessVars, backVars, histVars>>

\* lines 464-472: the first frame of a session
FirstFramesNone(targetId) == <<>>
FirstFrames(targetId) == <<sendEvent("Target.targetCreated", targetId, 0)>>

\* lines 475-479: the socket after a failed construction
AfterFailureStaysOpen(state) == state
AfterFailure(state) == IF state = "accepted" THEN "closed 1011" ELSE "closed"

LaunchOutcomes == {"launch fails", "newPage fails", "ok"}

\* lines 439-479: launch, newPage, the session object, the first event. On a
\* socket that is closed already, ws.send either throws (and the catch of line
\* 475 runs) or does nothing.
initCDPSession ==
  /\ wsState \in {"accepted", "closed early"}
  /\ \E outcome \in LaunchOutcomes, sendThrows \in BOOLEAN :
       IF outcome = "ok"
       THEN /\ browser' = "open"
            /\ pageCounter' = 1
            /\ livePages' = {1}
            /\ targetUuid' = 1
            /\ pages' = MapSet(EmptyMap, 1, 1)
            /\ defaultTargetId' = 1
            /\ listeners' = MapSet(EmptyMap, 1, <<>>)
            /\ dialogs' = MapSet(EmptyMap, 1, <<>>)
            /\ opened' = opened
            /\ IF wsState = "accepted"
               THEN /\ ~sendThrows
                    /\ wsState' = "open"
                    /\ sent' = FirstFrames(1)
                    /\ console' = console
               ELSE /\ wsState' = "closed"
                    /\ sent' = sent
                    /\ console' = IF sendThrows
                                  THEN Append(console, Log("Browser launch failed"))
                                  ELSE console
       ELSE /\ ~sendThrows
            /\ browser' = IF outcome = "newPage fails" THEN "open" ELSE browser
            /\ wsState' = AfterFailure(wsState)
            /\ console' = Append(console, Log("Browser launch failed"))
            /\ UNCHANGED <<pageCounter, livePages, targetUuid, pages,
                           defaultTargetId, listeners, dialogs, opened, sent>>
  /\ UNCHANGED <<workerVars, upgrade, nodeIdCounter, nodeMap, objectIdCounter, objectMap,
                 requestInterceptionEnabled, pendingRequests, requestUuid,
                 intercepting, raw, inflight, histVars>>

\* lines 505-514: the close listener calls browser.close(); a rejection is
\* caught and logged
SocketClose ==
  /\ wsState = "open"
  /\ wsState' = "closed"
  /\ \E ok \in BOOLEAN :
       /\ browser' = IF ok THEN "closed" ELSE browser
       /\ livePages' = IF ok THEN {} ELSE livePages
       /\ console' = IF ok THEN console ELSE Append(console, Log("Error closing browser"))
  /\ UNCHANGED <<workerVars, upgrade, sent, inflight, sessVars, pageCounter, listeners,
                 intercepting, raw, dialogs, opened, histVars>>

MaxInvalid == 1     \* unparseable texts per connection

Logged(line) == {i \in 1..Len(console) : console[i].line = line}

\* lines 485-491: a text that JSON.parse rejects is logged and dropped
InvalidFrameAnswered ==
  /\ wsState = "open"
  /\ Cardinality(Logged("Invalid JSON received")) < MaxInvalid
  /\ console' = Append(console, Log("Invalid JSON received"))
  /\ sent' = Send(<<sendError(0, "Parse error", 0)>>)
  /\ UNCHANGED <<workerVars, upgrade, wsState, inflight, sessVars, backVars, histVars>>
InvalidFrame ==
  /\ wsState = "open"
  /\ Cardinality(Logged("Invalid JSON received")) < MaxInvalid
  /\ console' = Append(console, Log("Invalid JSON received"))
  /\ UNCHANGED <<workerVars, upgrade, wsState, sent, inflight, sessVars, backVars, histVars>>

\* ---- what every command shares ----------------------------------------------
\* what the receipt of a command leaves alone unless it says otherwise
rest == <<workerVars, upgrade, wsState, console, sessVars, backVars, nodeLog, objectLog>>

\* handleCDPMethod, lines 543-568: a page-bound domain without a page
TargetNotFound(t) ==
  /\ Answer(Thrown("Target not found", ResolveTarget(t)))
  /\ UNCHANGED rest

\* the awaited backend call rejected and nothing in the handler caught it
BackendError == Thrown("backend error", 0)

Suspended(cmd) == {c \in inflight : c.cmd = cmd}

\* ---- DOM domain (handleDOM) -----------------------------------------------
NodeParams == 0..MaxMatches
Selectors == {"", "div"}

\* `session.nodeIdCounter++`, k times (lines 1135, 1163, 1175): the ids handed
\* out and the counter afterwards
AllocNodesNoIncrement(counter, k) ==
  [ids |-> [i \in 1..k |-> counter], next |-> counter]
AllocNodesOncePerBatch(counter, k) ==
  [ids |-> [i \in 1..k |-> counter + i - 1], next |-> counter + 1]
AllocNodes(counter, k) ==
  [ids |-> [i \in 1..k |-> counter + i - 1], next |-> counter + k]

\* session.nodeMap.get(nodeId); "" stands for undefined
LookupNodeDefaultsToRoot(n) == IF n \in DOMAIN nodeMap THEN nodeMap[n] ELSE "html"
LookupNodeStale(n) ==
  IF n \in DOMAIN nodeMap THEN nodeMap[n]
  ELSE IF n \in Range(nodeLog) THEN "stale" ELSE ""
LookupNode(n) == IF n \in DOMAIN nodeMap THEN nodeMap[n] ELSE ""

\* the node ids alloc.ids are registered with the selectors sels
Register(alloc, sels) ==
  /\ nodeIdCounter' = alloc.next
  /\ nodeMap' = [x \in DOMAIN nodeMap \cup Range(alloc.ids) |->
                   IF x \in Range(alloc.ids)
                   THEN sels[CHOOSE i \in DOMAIN alloc.ids : alloc.ids[i] = x]
                   ELSE nodeMap[x]]
  /\ nodeLog' = nodeLog \o alloc.ids

untouchedByDOM == <<workerVars, upgrade, wsState, console, pages, defaultTargetId, targetUuid, objectIdCounter,
                    objectMap, requestInterceptionEnabled, pendingRequests,
                    requestUuid, backVars, frameCounter, objectLog>>

\* lines 1097-1132
DOM_getDocument(t) ==
  /\ CanReceive
  /\ IF PageOf(t) = 0
     THEN TargetNotFound(t)
     ELSE /\ \E ok \in Outcomes(PageOf(t)) :
               Suspend("DOM.getDocument", PageOf(t), 0, "", ok)
          /\ UNCHANGED rest

\* lines 1134-1151
DOM_getDocument_resume(c) ==
  /\ c \in Suspended("DOM.getDocument")
  /\ IF c.ok
     THEN /\ Register(AllocNodes(nodeIdCounter, 1), <<"html">>)
          /\ Finish(c, <<>>, Returned("root", nodeIdCounter))
     ELSE /\ Finish(c, <<>>, BackendError)
          /\ UNCHANGED domVars
  /\ UNCHANGED untouchedByDOM

\* lines 1154-1158; the backend decides how many elements match
DOM_querySelector(t, sel) ==
  /\ CanReceive
  /\ IF PageOf(t) = 0
     THEN TargetNotFound(t)
     ELSE IF sel = ""
     THEN /\ Answer(Thrown("selector is required", 0))
          /\ UNCHANGED rest
     ELSE /\ \E ok \in Outcomes(PageOf(t)) : \E k \in 0..MaxMatches :
               Suspend("DOM.querySelector", PageOf(t), k, sel, ok)
          /\ UNCHANGED rest

\* line 1159: `if (!element)`, no element matched
NoElement(k) == k = 0

\* lines 1159-1166
DOM_querySelector_resume(c) ==
  /\ c \in Suspended("DOM.querySelector")
  /\ IF ~c.ok
     THEN /\ Finish(c, <<>>, BackendError)
          /\ UNCHANGED domVars
     ELSE IF NoElement(c.a)
     THEN /\ Finish(c, <<>>, Returned("nodeId", 0))
          /\ UNCHANGED domVars
     ELSE /\ Register(AllocNodes(nodeIdCounter, 1), <<c.s>>)
          /\ Finish(c, <<>>, Returned("nodeId", nodeIdCounter))
  /\ UNCHANGED untouchedByDOM

\* lines 1169-1173
DOM_querySelectorAll(t, sel) ==
  /\ CanReceive
  /\ IF PageOf(t) = 0
     THEN TargetNotFound(t)
     ELSE IF sel = ""
     THEN /\ Answer(Thrown("selector is required", 0))
          /\ UNCHANGED rest
     ELSE /\ \E ok \in Outcomes(PageOf(t)) : \E k \in 0..MaxMatches :
               Suspend("DOM.querySelectorAll", PageOf(t), k, sel, ok)
          /\ UNCHANGED rest

\* lines 1174-1180: one id per element, selector `${selector}:nth-of-type(i)`;
\* the response is tagged "nodeIds" and refers to the first id (0: none)
DOM_querySelectorAll_resume(c) ==
  /\ c \in Suspended("DOM.querySelectorAll")
  /\ IF ~c.ok
     THEN /\ Finish(c, <<>>, BackendError)
          /\ UNCHANGED domVars
     ELSE /\ Register(AllocNodes(nodeIdCounter, c.a), [i \in 1..c.a |-> "nth-of-type"])
          /\ Finish(c, <<>>, Returned("nodeIds", IF c.a = 0 THEN 0 ELSE nodeIdCounter))
  /\ UNCHANGED untouchedByDOM

\* lines 1183-1196: without a selector the whole document is read
DOM_getOuterHTML(t, n) ==
  /\ CanReceive
  /\ IF PageOf(t) = 0
     THEN TargetNotFound(t)
     ELSE /\ \E ok \in Outcomes(PageOf(t)) :
               Suspend("DOM.getOuterHTML", PageOf(t), n, LookupNode(n), ok)
          /\ UNCHANGED rest

\* lines 1190 and 1198
DOM_getOuterHTML_resume(c) ==
  /\ c \in Suspended("DOM.getOuterHTML")
  /\ Finish(c, <<>>, IF ~c.ok THEN BackendError
                     ELSE IF c.s = "" THEN Returned("outerHTML of document", 0)
                     ELSE Returned("outerHTML of element", c.a))
  /\ UNCHANGED <<untouchedByDOM, domVars>>

\* the commands that only resolve the node id and act on the element
NodeCommands == {"DOM.getAttributes", "DOM.setAttributeValue", "DOM.focus",
                 "DOM.getBoxModel", "DOM.scrollIntoViewIfNeeded", "DOM.setNodeValue",
                 "DOM.setFileInputFiles"}

\* lines 1201-1343 and 1362-1400: `if (!selector) throw new Error('Node not found')`
DOM_nodeCommand(cmd, t, n) ==
  /\ CanReceive
  /\ IF PageOf(t) = 0
     THEN TargetNotFound(t)
     ELSE IF LookupNode(n) = ""
     THEN /\ Answer(Thrown("Node not found", n))
          /\ UNCHANGED rest
     ELSE /\ \E ok \in Outcomes(PageOf(t)) :
               Suspend(cmd, PageOf(t), n, LookupNode(n), ok)
          /\ UNCHANGED rest

DOM_nodeCommand_resume(c) ==
  /\ c \in inflight
  /\ c.cmd \in NodeCommands
  /\ Finish(c, <<>>, IF c.ok THEN Returned("element", c.a) ELSE BackendError)
  /\ UNCHANGED <<untouchedByDOM, domVars>>

\* lines 1345-1356
DOM_removeNode(t, n) ==
  /\ CanReceive
  /\ IF PageOf(t) = 0
     THEN TargetNotFound(t)
     ELSE IF LookupNode(n) = ""
     THEN /\ Answer(Thrown("Node not found", n))
          /\ UNCHANGED rest
     ELSE /\ \E ok \in Outcomes(PageOf(t)) :
               Suspend("DOM.removeNode", PageOf(t), n, LookupNode(n), ok)
          /\ UNCHANGED rest

\* lines 1358-1359
DOM_removeNode_resume(c) ==
  /\ c \in Suspended("DOM.removeNode")
  /\ IF c.ok
     THEN /\ nodeMap' = MapDelete(nodeMap, c.a)
          /\ Finish(c, <<>>, Returned("removed", c.a))
     ELSE /\ nodeMap' = nodeMap
          /\ Finish(c, <<>>, BackendError)
  /\ UNCHANGED <<untouchedByDOM, nodeIdCounter, nodeLog>>

\* ---- Runtime domain (handleRuntime) -----------------------------------------
\* what an in-page evaluation yields: a value of one of three kinds, or an exception
ValueKinds == {"object", "primitive", "null"}
Evaluations(p) == IF PageLive(p) THEN ValueKinds \cup {"throws"} ELSE {"throws"}

Expressions == {"", "expr"}
ByValueParams == {"absent", "true", "false"}
ObjectParams == 1..MaxMatches

\* lines 930 and 973: params.returnByValue ?? true
ReturnByValue(param) == IF param = "absent" THEN TRUE ELSE param = "true"

\* `session.objectIdCounter++` (lines 944, 989): the id handed out and the
\* counter afterwards
AllocObject(counter) == [id |-> counter, next |-> counter + 1]

\* lines 943 and 988: !returnByValue && result !== null && typeof result === 'object'
StoresObjectOfAnyType(byValue, kind) == ~byValue /\ kind \in {"object", "null"}
StoresObject(byValue, kind) == ~byValue /\ kind = "object"

\* lines 948-957 and 993-1000: the members of `result` that are defined:
\* `value: returnByValue ? result : undefined` and `objectId`
ResultMembers(byValue, stored) ==
  IF stored THEN (IF byValue THEN "objectId and value" ELSE "objectId")
  ELSE IF byValue THEN "value" ELSE "no value"

\* lines 958-967 and 1001-1010: the catch returns exceptionDetails
EvaluationFailureThrown == Thrown("backend error", 0)
EvaluationFailure == Returned("exceptionDetails", 0)

\* line 1062: session.objectMap.clear()
ClearKeepsObjects(objects) == objects
Clear(objects) == EmptyMap

untouchedByRuntime == <<workerVars, upgrade, wsState, console, pages, defaultTargetId, targetUuid, nodeIdCounter,
                        nodeMap, requestInterceptionEnabled, pendingRequests,
                        requestUuid, backVars, nodeLog>>

\* lines 939-967 and 985-1010, after the await: the by-value / by-reference
\* policy of evaluate and callFunctionOn; an exception becomes exceptionDetails
EvaluateResume(c) ==
  /\ IF ~c.ok
     THEN /\ Finish(c, <<>>, EvaluationFailure)
          /\ UNCHANGED objVars
     ELSE IF StoresObject(c.a = 1, c.s)
     THEN LET alloc == AllocObject(objectIdCounter) IN
          /\ objectIdCounter' = alloc.next
          /\ objectMap' = MapSet(objectMap, alloc.id, c.s)
          /\ objectLog' = Append(objectLog, alloc.id)
          /\ Finish(c, <<>>, Returned(ResultMembers(c.a = 1, TRUE), alloc.id))
     ELSE /\ Finish(c, <<>>, Returned(ResultMembers(c.a = 1, FALSE), 0))
          /\ UNCHANGED objVars
  /\ UNCHANGED <<untouchedByRuntime, frameCounter>>

\* lines 926-939; the continuation keeps returnByValue (1: true) and the result
Runtime_evaluate(t, expression, byValue) ==
  /\ CanReceive
  /\ IF PageOf(t) = 0
     THEN TargetNotFound(t)
     ELSE IF expression = ""
     THEN /\ Answer(Thrown("expression is required", 0))
          /\ UNCHANGED rest
     ELSE /\ \E kind \in Evaluations(PageOf(t)) :
               Suspend("Runtime.evaluate", PageOf(t), IF ReturnByValue(byValue) THEN 1 ELSE 0,
                       kind, kind # "throws")
          /\ UNCHANGED rest

Runtime_evaluate_resume(c) ==
  /\ c \in Suspended("Runtime.evaluate")
  /\ EvaluateResume(c)

\* lines 970-985: the arguments are read from objectMap (no state changes); the
\* callable is built with `new Function`, which throws for a declaration that
\* does not compile, and that is caught like an evaluation failure
Runtime_callFunctionOn(t, compiles, byValue) ==
  /\ CanReceive
  /\ IF PageOf(t) = 0
     THEN TargetNotFound(t)
     ELSE IF ~compiles
     THEN /\ Answer(EvaluationFailure)
          /\ UNCHANGED rest
     ELSE /\ \E kind \in Evaluations(PageOf(t)) :
               Suspend("Runtime.callFunctionOn", PageOf(t), IF ReturnByValue(byValue) THEN 1 ELSE 0,
                       kind, kind # "throws")
          /\ UNCHANGED rest

Runtime_callFunctionOn_resume(c) ==
  /\ c \in Suspended("Runtime.callFunctionOn")
  /\ EvaluateResume(c)

\* lines 1013-1052: nothing is awaited
Runtime_getProperties(t, objectId) ==
  /\ CanReceive
  /\ IF PageOf(t) = 0
     THEN TargetNotFound(t)
     ELSE /\ Answer(IF objectId \in DOMAIN objectMap /\ objectMap[objectId] = "object"
                    THEN Returned("properties", objectId)
                    ELSE Returned("no properties", objectId))
          /\ UNCHANGED rest

\* lines 1054-1058
Runtime_releaseObject(t, objectId) ==
  /\ CanReceive
  /\ IF PageOf(t) = 0
     THEN TargetNotFound(t)
     ELSE /\ Answer(Returned("released", objectId))
          /\ objectMap' = MapDelete(objectMap, objectId)
          /\ UNCHANGED <<objectIdCounter, objectLog, untouchedByRuntime>>

\* lines 1060-1064: every object is released, whatever group is named
Runtime_releaseObjectGroup(t) ==
  /\ CanReceive
  /\ IF PageOf(t) = 0
     THEN TargetNotFound(t)
     ELSE /\ Answer(Returned("released", 0))
          /\ objectMap' = Clear(objectMap)
          /\ UNCHANGED <<objectIdCounter, objectLog, untouchedByRuntime>>

\* ---- Browser and Target domains (handleBrowser, handleTarget) ----------------
untouchedByTarget == <<workerVars, upgrade, wsState, console, nodeIdCounter, nodeMap, objectIdCounter, objectMap,
                       requestInterceptionEnabled, pendingRequests, requestUuid,
                       intercepting, raw, nodeLog, objectLog>>

\* lines 584-591: no page is needed and nothing is awaited
Browser_getVersion ==
  /\ CanReceive
  /\ Answer(Returned("version", 0))
  /\ UNCHANGED rest

\* lines 593-594: browser.close() closes every page
Browser_close ==
  /\ CanReceive
  /\ \E ok \in BOOLEAN :
       /\ Suspend("Browser.close", 0, 0, "", ok)
       /\ browser' = IF ok THEN "closed" ELSE browser
       /\ livePages' = IF ok THEN {} ELSE livePages
  /\ UNCHANGED <<untouchedByTarget, pages, defaultTargetId, targetUuid, pageCounter,
                 listeners, dialogs, opened>>

\* line 595
Browser_close_resume(c) ==
  /\ c \in Suspended("Browser.close")
  /\ Finish(c, <<>>, IF c.ok THEN Returned("closed", 0) ELSE BackendError)
  /\ UNCHANGED <<untouchedByTarget, targetVars, listeners, dialogs, opened, frameCounter>>

Urls == {"about:blank", "/a", "/ab"}

\* lines 613-614: browser.newPage()
Target_createTarget(url) ==
  /\ CanReceive
  /\ pageCounter < MaxTargets
  /\ \E ok \in (IF browser = "open" THEN BOOLEAN ELSE {FALSE}) :
       /\ Suspend("Target.createTarget", IF ok THEN pageCounter + 1 ELSE 0, 0, url, ok)
       /\ pageCounter' = IF ok THEN pageCounter + 1 ELSE pageCounter
       /\ livePages' = IF ok THEN livePages \cup {pageCounter + 1} ELSE livePages
       /\ listeners' = IF ok THEN MapSet(listeners, pageCounter + 1, <<>>) ELSE listeners
       /\ dialogs' = IF ok THEN MapSet(dialogs, pageCounter + 1, <<>>) ELSE dialogs
       /\ opened' = opened
  /\ UNCHANGED <<untouchedByTarget, pages, defaultTargetId, targetUuid, browser>>

\* lines 615-621 and 627: the page is registered under a fresh target id, then
\* page.goto(url) is awaited unless the url is about:blank, then page.title()
Target_createTarget_resume(c) ==
  /\ c \in Suspended("Target.createTarget")
  /\ IF ~c.ok
     THEN /\ Finish(c, <<>>, BackendError)
          /\ UNCHANGED <<pages, targetUuid>>
     ELSE /\ targetUuid' = targetUuid + 1
          /\ pages' = MapSet(pages, targetUuid + 1, c.page)
          /\ sent' = sent
          /\ \E ok \in Outcomes(c.page) :
               inflight' = (inflight \ {c}) \cup
                 {Cont(c.id, IF c.s = "about:blank" THEN "Target.createTarget title"
                             ELSE "Target.createTarget goto",
                       c.page, ok, targetUuid + 1, c.s)}
  /\ UNCHANGED <<untouchedByTarget, defaultTargetId, backVars, frameCounter>>

\* line 620, after the await of page.goto; then page.title() is called
Target_createTarget_goto(c) ==
  /\ c \in Suspended("Target.createTarget goto")
  /\ IF ~c.ok
     THEN Finish(c, <<>>, BackendError)
     ELSE /\ sent' = sent
          /\ \E ok \in Outcomes(c.page) :
               inflight' = (inflight \ {c}) \cup
                 {Cont(c.id, "Target.createTarget title", c.page, ok, c.a, c.s)}
  /\ UNCHANGED <<untouchedByTarget, targetVars, listeners, dialogs, opened, frameCounter>>

\* lines 623-633, after the await of page.title()
Target_createTarget_title(c) ==
  /\ c \in Suspended("Target.createTarget title")
  /\ IF ~c.ok
     THEN Finish(c, <<>>, BackendError)
     ELSE Finish(c, <<sendEvent("Target.targetCreated", c.a, c.id)>>,
                 Returned("targetId", c.a))
  /\ UNCHANGED <<untouchedByTarget, targetVars, listeners, dialogs, opened, frameCounter>>

\* lines 636-644: the target is looked up by params.targetId alone
Target_closeTarget(t) ==
  /\ CanReceive
  /\ IF t \notin DOMAIN pages
     THEN /\ Answer(Thrown("Target not found", t))
          /\ UNCHANGED rest
     ELSE \E ok \in Outcomes(pages[t]) :
            /\ Suspend("Target.closeTarget", pages[t], t, "", ok)
            /\ livePages' = IF ok THEN livePages \ {pages[t]} ELSE livePages
            /\ UNCHANGED <<untouchedByTarget, pages, defaultTargetId, targetUuid,
                           browser, pageCounter, listeners, dialogs, opened>>

\* line 645: session.pages.delete(targetId)
RemoveTargetClearsAll(targets, t) == EmptyMap
RemoveTarget(targets, t) == MapDelete(targets, t)

\* lines 645-649
Target_closeTarget_resume(c) ==
  /\ c \in Suspended("Target.closeTarget")
  /\ IF c.ok
     THEN /\ pages' = RemoveTarget(pages, c.a)
          /\ Finish(c, <<sendEvent("Target.targetDestroyed", c.a, c.id)>>,
                    Returned("success", c.a))
     ELSE /\ pages' = pages
          /\ Finish(c, <<>>, BackendError)
  /\ UNCHANGED <<untouchedByTarget, defaultTargetId, targetUuid, backVars, frameCounter>>

\* lines 652-665: page.title() of every registered page is awaited
Target_getTargets ==
  /\ CanReceive
  /\ IF DOMAIN pages = {}
     THEN Answer(Returned("targetInfos", 0))
     ELSE \E ok \in (IF \A t \in DOMAIN pages : PageLive(pages[t])
                     THEN BOOLEAN ELSE {FALSE}) :
            Suspend("Target.getTargets", 0, 0, "", ok)
  /\ UNCHANGED rest

Target_getTargets_resume(c) ==
  /\ c \in Suspended("Target.getTargets")
  /\ Finish(c, <<>>, IF c.ok THEN Returned("targetInfos", 0) ELSE BackendError)
  /\ UNCHANGED <<untouchedByTarget, targetVars, listeners, dialogs, opened, frameCounter>>

\* lines 667-669
Target_attachToTarget(t) ==
  /\ CanReceive
  /\ Answer(Returned("sessionId", t))
  /\ UNCHANGED rest

\* lines 570-571, 597-598, 671-672, ...: an unknown domain or command
UnknownMethod ==
  /\ CanReceive
  /\ Answer(Thrown("Unknown method", 0))
  /\ UNCHANGED rest

\* ---- the backend's requests and the 'request' listeners ----------------------
\* `request.url().match(pattern.urlPattern)`: the pattern is used as a regular
\* expression searched in the url; the cases of the model's urls and patterns
MatchTable == {<<"/a", "a">>, <<"/ab", "a">>, <<"/ab", "b">>}
UrlMatch(url, pattern) == <<url, pattern>> \in MatchTable

\* params.patterns of Fetch.enable: absent, or a list of urlPatterns ("" stands
\* for an entry without urlPattern)
Patterns(given, list) == [given |-> given, list |-> list]

\* lines 1799-1807
ShouldIntercept(patterns, url) ==
  \/ ~patterns.given \/ Len(patterns.list) = 0
  \/ \E i \in 1..Len(patterns.list) :
       patterns.list[i] = "" \/ UrlMatch(url, patterns.list[i])

\* request.continue() from a listener: it throws for a request that is not
\* paused (already handled, or interception is off on its page), and the
\* rejection of the async listener is swallowed
ContinueInListener(state) == IF state = "paused" THEN "continued" ELSE state

\* lines 1790-1831: one 'request' listener acts on request acc.r
ListenerStepIgnoresFlag(patterns, url, acc) ==
  IF ShouldIntercept(patterns, url)
  THEN [acc EXCEPT !.uuid = @ + 1,
                   !.pending = MapSet(@, acc.uuid + 1, acc.r),
                   !.events = Append(@, sendEvent("Fetch.requestPaused", acc.uuid + 1, 0))]
  ELSE [acc EXCEPT !.state = ContinueInListener(@)]
ListenerStep(patterns, url, acc) ==
  IF ~requestInterceptionEnabled
  THEN [acc EXCEPT !.state = ContinueInListener(@)]
  ELSE IF ShouldIntercept(patterns, url)
  THEN [acc EXCEPT !.uuid = @ + 1,
                   !.pending = MapSet(@, acc.uuid + 1, acc.r),
                   !.events = Append(@, sendEvent("Fetch.requestPaused", acc.uuid + 1, 0))]
  ELSE [acc EXCEPT !.state = ContinueInListener(@)]

\* the event emitter calls the page's listeners in the order of their registration
RECURSIVE RunListeners(_, _, _)
RunListeners(ls, url, acc) ==
  IF ls = <<>> THEN acc
  ELSE RunListeners(Tail(ls), url, ListenerStep(Head(ls), url, acc))

\* page p issues a request for url: the backend pauses it when interception is
\* on for p, and emits 'request'
IssueRequest(p, url) ==
  LET r == Len(raw) + 1
      acc == RunListeners(listeners[p], url,
               [r |-> r, state |-> IF p \in intercepting THEN "paused" ELSE "passed",
                pending |-> pendingRequests, uuid |-> requestUuid, events |-> <<>>])
  IN /\ raw' = Append(raw, [page |-> p, url |-> url, state |-> acc.state, reason |-> "",
                         errorReason |-> <<>>])
     /\ pendingRequests' = acc.pending
     /\ requestUuid' = acc.uuid
     /\ sent' = Send(acc.events)

untouchedByRequest == <<workerVars, upgrade, wsState, console, pages, defaultTargetId, targetUuid, nodeIdCounter,
                        nodeMap, objectIdCounter, objectMap,
                        requestInterceptionEnabled, browser, livePages, pageCounter,
                        listeners, intercepting, dialogs, opened, histVars>>

RequestUrls == {"/a", "/ab"}

\* a page issues a request on its own (a subresource, a script's fetch)
PageRequest(p, url) ==
  /\ PageLive(p)
  /\ Len(raw) < MaxRequests
  /\ IssueRequest(p, url)
  /\ inflight' = inflight
  /\ UNCHANGED untouchedByRequest

\* page.setRequestInterception(false) took effect on the page of a request that
\* is still paused: the backend may let the request go on
BackendRelease(r) ==
  /\ r \in 1..Len(raw)
  /\ raw[r].state = "paused"
  /\ raw[r].page \notin intercepting
  /\ PageLive(raw[r].page)
  /\ raw' = [raw EXCEPT ![r].state = "continued"]
  /\ UNCHANGED <<untouchedByRequest, pendingRequests, requestUuid, sent, inflight>>

Resolved == {"continued", "fulfilled", "aborted", "passed"}

\* ---- Page domain: navigate (handlePage) ---------------------------------------
NavigateUrls == {"", "/a"}

\* lines 687-693: page.goto(url, {waitUntil: 'load'}) is called
Page_navigate(t, url) ==
  /\ CanReceive
  /\ IF PageOf(t) = 0
     THEN TargetNotFound(t)
     ELSE IF url = ""
     THEN /\ Answer(Thrown("url is required", 0))
          /\ UNCHANGED rest
     ELSE /\ Suspend("Page.navigate", PageOf(t), 0, url, TRUE)
          /\ UNCHANGED rest

\* the navigation's document request is issued by the page
Page_navigate_request(c) ==
  /\ c \in Suspended("Page.navigate")
  /\ c.a = 0
  /\ PageLive(c.page)
  /\ IssueRequest(c.page, c.s)
  /\ inflight' = (inflight \ {c}) \cup {[c EXCEPT !.a = Len(raw) + 1]}
  /\ UNCHANGED untouchedByRequest

\* page.goto settles: it resolves once the document request went through, and
\* rejects when the request was aborted, the load failed or the page is gone.
\* Line 691 passes no timeout, so the backend's default navigation timeout
\* applies: page.goto also rejects while the request is still paused.
GotoSettledWhenPageGone(c) == ~PageLive(c.page)
GotoSettled(c) ==
  \/ ~PageLive(c.page)
  \/ c.a # 0 /\ raw[c.a].state \in Resolved
  \/ c.a # 0 /\ raw[c.a].state = "paused"

GotoOutcomes(c) ==
  IF PageLive(c.page) /\ c.a # 0 /\ raw[c.a].state \in Resolved \ {"aborted"}
  THEN BOOLEAN ELSE {FALSE}

\* lines 695-706: the two events of a completed navigation
NavigateEventsSwapped(c) ==
  <<sendEvent("Page.loadEventFired", 0, c.id),
    sendEvent("Page.frameNavigated", defaultTargetId, c.id)>>
NavigateEvents(c) ==
  <<sendEvent("Page.frameNavigated", defaultTargetId, c.id),
    sendEvent("Page.loadEventFired", 0, c.id)>>

\* lines 695-712, after the await
Page_navigate_resume(c) ==
  /\ c \in Suspended("Page.navigate")
  /\ GotoSettled(c)
  /\ \E ok \in GotoOutcomes(c) :
       IF ok
       THEN Finish(c, NavigateEvents(c), Returned("frameId", defaultTargetId))
       ELSE Finish(c, <<>>, BackendError)
  /\ UNCHANGED <<workerVars, upgrade, wsState, console, sessVars, backVars, histVars>>

\* ---- Input and Emulation domains, Page.reload ---------------------------------
\* commands that await one call on the page and return {}: lines 715-718
\* (page.reload), 1420-1452 (the mouse) and 1664-1668 (page.setUserAgent)
PageCommands == {"Page.reload", "Input.dispatchMouseEvent",
                 "Emulation.setUserAgentOverride"}

\* handleCDPMethod lines 543-564, then the awaited call
Page_command(cmd, t) ==
  /\ CanReceive
  /\ IF PageOf(t) = 0
     THEN TargetNotFound(t)
     ELSE /\ \E ok \in Outcomes(PageOf(t)) : Suspend(cmd, PageOf(t), 0, "", ok)
          /\ UNCHANGED rest

\* `return {}`
Page_command_resume(c) ==
  /\ c \in inflight
  /\ c.cmd \in PageCommands
  /\ Finish(c, <<>>, IF c.ok THEN Returned("empty", 0) ELSE BackendError)
  /\ UNCHANGED <<workerVars, upgrade, wsState, console, sessVars, backVars, histVars>>

\* ---- Page domain: handleJavaScriptDialog --------------------------------------
MaxDialogs == 2     \* dialogs the pages open

\* params.promptText: absent or a text
PromptTexts == {"absent", "text"}

\* the listener of lines 856-862 closes over accept and promptText
DialogListener(accept, promptText) == [accept |-> accept, promptText |-> promptText]

\* lines 857-861: dialog.accept(promptText) or dialog.dismiss()
DialogAnswer(l) ==
  IF l.accept THEN [action |-> "accept", promptText |-> l.promptText]
  ELSE [action |-> "dismiss", promptText |-> "absent"]

\* one 'dialog' listener acts on the dialog d: the backend takes the first
\* answer, dialog.accept and dialog.dismiss throw for a dialog that is already
\* handled, and the rejection of the async listener is swallowed
DialogStep(l, d) ==
  IF d.handled THEN d
  ELSE [handled |-> TRUE, answers |-> Append(d.answers, DialogAnswer(l))]

\* the event emitter calls the page's listeners in the order of their registration
RECURSIVE RunDialogListeners(_, _)
RunDialogListeners(ls, d) ==
  IF ls = <<>> THEN d
  ELSE RunDialogListeners(Tail(ls), DialogStep(Head(ls), d))

\* lines 851-864: page.on('dialog', ...) adds a listener; nothing is awaited
Page_handleJavaScriptDialog(t, accept, promptText) ==
  /\ CanReceive
  /\ IF PageOf(t) = 0
     THEN TargetNotFound(t)
     ELSE /\ dialogs' = [dialogs EXCEPT
                           ![PageOf(t)] = Append(@, DialogListener(accept, promptText))]
          /\ Answer(Returned("empty", 0))
          /\ UNCHANGED <<workerVars, upgrade, wsState, console, sessVars, browser,
                         livePages, pageCounter, listeners, intercepting, raw, opened,
                         nodeLog, objectLog>>

\* a script of page p opens a dialog (alert, confirm, prompt): the backend
\* emits 'dialog'
DialogOpens(p) ==
  /\ PageLive(p)
  /\ Len(opened) < MaxDialogs
  /\ opened' = Append(opened,
       [page |-> p, listeners |-> dialogs[p],
        answers |-> RunDialogListeners(dialogs[p],
                      [handled |-> FALSE, answers |-> <<>>]).answers])
  /\ UNCHANGED <<workerVars, upgrade, wsState, console, sent, inflight, sessVars,
                 browser, livePages, pageCounter, listeners, intercepting, raw,
                 dialogs, histVars>>

\* ---- Fetch domain (handleFetch) ---------------------------------------------
RequestParams == 1..MaxRequests

untouchedByFetch == <<workerVars, upgrade, wsState, console, pages, defaultTargetId, targetUuid, nodeIdCounter,
                      nodeMap, objectIdCounter, objectMap, requestUuid, browser,
                      livePages, pageCounter, dialogs, opened, nodeLog, objectLog>>

\* the pattern lists a client passes to Fetch.enable, by name
PatternParams == {"absent", "[]", "[b]"}
PatternsOf(name) ==
  CASE name = "absent" -> Patterns(FALSE, <<>>)
    [] name = "[]" -> Patterns(TRUE, <<>>)
    [] name = "[b]" -> Patterns(TRUE, <<"b">>)
    [] name = "[*]" -> Patterns(TRUE, <<"">>)

\* lines 1780-1788: the flag is set before page.setRequestInterception(true)
\* is awaited
Fetch_enable(t, patterns) ==
  /\ CanReceive
  /\ IF PageOf(t) = 0
     THEN TargetNotFound(t)
     ELSE /\ requestInterceptionEnabled' = TRUE
          /\ \E ok \in Outcomes(PageOf(t)) :
               /\ Suspend("Fetch.enable", PageOf(t), 0, patterns, ok)
               /\ intercepting' = IF ok THEN intercepting \cup {PageOf(t)}
                                  ELSE intercepting
          /\ UNCHANGED <<untouchedByFetch, pendingRequests, listeners, raw>>

\* lines 1790-1833: page.on('request', ...) adds a listener
Fetch_enable_resume(c) ==
  /\ c \in Suspended("Fetch.enable")
  /\ IF c.ok
     THEN /\ listeners' = [listeners EXCEPT ![c.page] = Append(@, PatternsOf(c.s))]
          /\ Finish(c, <<>>, Returned("enabled", 0))
     ELSE /\ listeners' = listeners
          /\ Finish(c, <<>>, BackendError)
  /\ UNCHANGED <<untouchedByFetch, requestInterceptionEnabled, pendingRequests,
                 intercepting, raw, frameCounter>>

\* lines 1836-1838
Fetch_disable(t) ==
  /\ CanReceive
  /\ IF PageOf(t) = 0
     THEN TargetNotFound(t)
     ELSE /\ requestInterceptionEnabled' = FALSE
          /\ \E ok \in Outcomes(PageOf(t)) :
               /\ Suspend("Fetch.disable", PageOf(t), 0, "", ok)
               /\ intercepting' = IF ok THEN intercepting \ {PageOf(t)}
                                  ELSE intercepting
          /\ UNCHANGED <<untouchedByFetch, pendingRequests, listeners, raw>>

\* line 1839
Fetch_disable_resume(c) ==
  /\ c \in Suspended("Fetch.disable")
  /\ Finish(c, <<>>, IF c.ok THEN Returned("disabled", 0) ELSE BackendError)
  /\ UNCHANGED <<untouchedByFetch, requestInterceptionEnabled, pendingRequests,
                 listeners, intercepting, raw, frameCounter>>

\* request.continue / respond / abort of the backend: the call resolves a
\* paused request of a live page, and throws for any other request
ResolveOutcomes(r) ==
  IF raw[r].state = "paused" /\ PageLive(raw[r].page) THEN BOOLEAN ELSE {FALSE}

\* the three resolution commands up to their await (lines 1842-1872, 1878-1906,
\* 1913-1937): look the request up, then call the backend with the resolution;
\* the request remembers the errorReason it was failed with (history)
ResolveRequest(cmd, t, requestId, state, reason, errorReason) ==
  /\ CanReceive
  /\ IF PageOf(t) = 0
     THEN TargetNotFound(t)
     ELSE IF requestId \notin DOMAIN pendingRequests
     THEN /\ Answer(Thrown("Request not found", requestId))
          /\ UNCHANGED rest
     ELSE LET r == pendingRequests[requestId] IN
          \E ok \in ResolveOutcomes(r) :
            /\ Suspend(cmd, PageOf(t), requestId, state, ok)
            /\ raw' = IF ok THEN [raw EXCEPT ![r].state = state, ![r].reason = reason,
                                             ![r].errorReason = errorReason]
                      ELSE raw
            /\ UNCHANGED <<untouchedByFetch, requestInterceptionEnabled,
                           pendingRequests, listeners, intercepting>>

\* session.pendingRequests.delete(requestId)
EvictNothing(pending, requestId) == pending
Evict(pending, requestId) == MapDelete(pending, requestId)

\* lines 1873, 1908, 1938: the entry is deleted after the await
ResolveRequest_resume(c) ==
  /\ IF c.ok
     THEN /\ pendingRequests' = Evict(pendingRequests, c.a)
          /\ Finish(c, <<>>, Returned(c.s, c.a))
     ELSE /\ pendingRequests' = pendingRequests
          /\ Finish(c, <<>>, BackendError)
  /\ UNCHANGED <<untouchedByFetch, requestInterceptionEnabled, listeners,
                 intercepting, raw, frameCounter>>

Fetch_continueRequest(t, requestId) ==
  ResolveRequest("Fetch.continueRequest", t, requestId, "continued", "", <<>>)

Fetch_continueRequest_resume(c) ==
  /\ c \in Suspended("Fetch.continueRequest")
  /\ ResolveRequest_resume(c)

Fetch_fulfillRequest(t, requestId) ==
  ResolveRequest("Fetch.fulfillRequest", t, requestId, "fulfilled", "", <<>>)

Fetch_fulfillRequest_resume(c) ==
  /\ c \in Suspended("Fetch.fulfillRequest")
  /\ ResolveRequest_resume(c)

\* an errorReason is a sequence of words; `errorReason.toLowerCase().includes(k)`
\* holds when a word, lower-cased, contains the keyword k
WordList == <<"Access", "address", "BLOCKED", "Connection", "TimeOut", "TimedOut", "Failed">>
Words == Range(WordList)
LowerCase(word) ==
  CASE word = "Access" -> "access"
    [] word = "address" -> "address"
    [] word = "BLOCKED" -> "blocked"
    [] word = "Connection" -> "connection"
    [] word = "TimeOut" -> "timeout"
    [] word = "TimedOut" -> "timedout"
    [] word = "Failed" -> "failed"
Includes(errorReason, keyword) ==
  \E i \in 1..Len(errorReason) : LowerCase(errorReason[i]) = keyword

\* lines 1925-1935: the first keyword found, in this order, decides
AbortReasonTimeoutFirst(errorReason) ==
  IF Includes(errorReason, "timeout") THEN "timedout"
  ELSE IF Includes(errorReason, "access") THEN "accessdenied"
  ELSE IF Includes(errorReason, "address") THEN "addressunreachable"
  ELSE IF Includes(errorReason, "blocked") THEN "blockedbyclient"
  ELSE IF Includes(errorReason, "connection") THEN "connectionfailed"
  ELSE "failed"
AbortReason(errorReason) ==
  IF Includes(errorReason, "access") THEN "accessdenied"
  ELSE IF Includes(errorReason, "address") THEN "addressunreachable"
  ELSE IF Includes(errorReason, "blocked") THEN "blockedbyclient"
  ELSE IF Includes(errorReason, "connection") THEN "connectionfailed"
  ELSE IF Includes(errorReason, "timeout") THEN "timedout"
  ELSE "failed"

Fetch_failRequest(t, requestId, errorReason) ==
  ResolveRequest("Fetch.failRequest", t, requestId, "aborted", AbortReason(errorReason),
                 errorReason)

Fetch_failRequest_resume(c) ==
  /\ c \in Suspended("Fetch.failRequest")
  /\ ResolveRequest_resume(c)

\* lines 1943-1947
Fetch_getResponseBody(t) ==
  /\ CanReceive
  /\ IF PageOf(t) = 0
     THEN TargetNotFound(t)
     ELSE /\ Answer(Returned("body", 0))
          /\ UNCHANGED rest

\* ---- specifications ---------------------------------------------------------
Session == initCDPSession \/ EarlyClose \/ SocketClose

DOMCommands ==
  \/ \E t \in TargetParams : DOM_getDocument(t)
  \/ \E c \in inflight : DOM_getDocument_resume(c)
  \/ \E t \in TargetParams, sel \in Selectors : DOM_querySelector(t, sel)
  \/ \E c \in inflight : DOM_querySelector_resume(c)
  \/ \E t \in TargetParams, sel \in Selectors : DOM_querySelectorAll(t, sel)
  \/ \E c \in inflight : DOM_querySelectorAll_resume(c)
  \/ \E t \in TargetParams, n \in NodeParams : DOM_getOuterHTML(t, n)
  \/ \E c \in inflight : DOM_getOuterHTML_resume(c)
  \/ \E cmd \in NodeCommands, t \in TargetParams, n \in NodeParams :
       DOM_nodeCommand(cmd, t, n)
  \/ \E c \in inflight : DOM_nodeCommand_resume(c)
  \/ \E t \in TargetParams, n \in NodeParams : DOM_removeNode(t, n)
  \/ \E c \in inflight : DOM_removeNode_resume(c)

RuntimeCommands ==
  \/ \E t \in TargetParams, e \in Expressions, v \in ByValueParams :
       Runtime_evaluate(t, e, v)
  \/ \E c \in inflight : Runtime_evaluate_resume(c)
  \/ \E t \in TargetParams, compiles \in BOOLEAN, v \in ByValueParams :
       Runtime_callFunctionOn(t, compiles, v)
  \/ \E c \in inflight : Runtime_callFunctionOn_resume(c)
  \/ \E t \in TargetParams, o \in ObjectParams : Runtime_getProperties(t, o)
  \/ \E t \in TargetParams, o \in ObjectParams : Runtime_releaseObject(t, o)
  \/ \E t \in TargetParams : Runtime_releaseObjectGroup(t)

TargetCommands ==
  \/ Browser_getVersion
  \/ Browser_close
  \/ \E c \in inflight : Browser_close_resume(c)
  \/ \E url \in {"about:blank", "/a"} : Target_createTarget(url)
  \/ \E c \in inflight : Target_createTarget_resume(c)
  \/ \E c \in inflight : Target_createTarget_goto(c)
  \/ \E c \in inflight : Target_createTarget_title(c)
  \/ \E t \in TargetParams : Target_closeTarget(t)
  \/ \E c \in inflight : Target_closeTarget_resume(c)
  \/ Target_getTargets
  \/ \E c \in inflight : Target_getTargets_resume(c)
  \/ \E t \in TargetParams : Target_attachToTarget(t)
  \/ UnknownMethod

NavigateCommands ==
  \/ \E t \in TargetParams, url \in NavigateUrls : Page_navigate(t, url)
  \/ \E c \in inflight : Page_navigate_request(c)
  \/ \E c \in inflight : Page_navigate_resume(c)

Requests == \E p \in livePages, url \in RequestUrls : PageRequest(p, url)

Releases == \E r \in 1..Len(raw) : BackendRelease(r)

FetchCommands ==
  \/ \E t \in TargetParams, ps \in PatternParams : Fetch_enable(t, ps)
  \/ \E c \in inflight : Fetch_enable_resume(c)
  \/ \E t \in TargetParams : Fetch_disable(t)
  \/ \E c \in inflight : Fetch_disable_resume(c)
  \/ \E t \in TargetParams, q \in RequestParams : Fetch_continueRequest(t, q)
  \/ \E c \in inflight : Fetch_continueRequest_resume(c)
  \/ \E t \in TargetParams, q \in RequestParams : Fetch_fulfillRequest(t, q)
  \/ \E c \in inflight : Fetch_fulfillRequest_resume(c)
  \/ \E c \in inflight : Fetch_failRequest_resume(c)
  \/ \E t \in TargetParams : Fetch_getResponseBody(t)

\* the errorReasons of the model: up to two words
ErrorReasons ==
  {<<>>} \cup {<<w>> : w \in Words}
    \cup {<<WordList[p[1]], WordList[p[2]]>> :
             p \in {q \in (1..Len(WordList)) \X (1..Len(WordList)) : q[1] < q[2]}}

FailCommands(targets, reasons) ==
  \E t \in targets, q \in RequestParams, e \in reasons : Fetch_failRequest(t, q, e)

\* node and object handles: the commands that allocate or release them
NextIds ==
  \/ Session
  \/ \E t \in TargetParams : DOM_getDocument(t)
  \/ \E c \in inflight : DOM_getDocument_resume(c)
  \/ \E t \in TargetParams, sel \in Selectors : DOM_querySelector(t, sel)
  \/ \E c \in inflight : DOM_querySelector_resume(c)
  \/ \E t \in TargetParams, sel \in Selectors : DOM_querySelectorAll(t, sel)
  \/ \E c \in inflight : DOM_querySelectorAll_resume(c)
  \/ \E t \in TargetParams, n \in NodeParams : DOM_removeNode(t, n)
  \/ \E c \in inflight : DOM_removeNode_resume(c)
  \/ RuntimeCommands

SpecIds == Init /\ [][NextIds]_vars

\* the DOM domain
NextDOM == Session \/ DOMCommands

SpecDOM == Init /\ [][NextDOM]_vars

\* targets, the browser and navigation
NextTarget == Session \/ TargetCommands \/ NavigateCommands

SpecTarget == Init /\ [][NextTarget]_vars

\* request interception
NextFetch ==
  \/ Session
  \/ FetchCommands
  \/ FailCommands(TargetParams, {<<"TimeOut">>})
  \/ Requests
  \/ Releases
  \/ NavigateCommands

SpecFetch == Init /\ [][NextFetch]_vars

\* Fetch.failRequest with every errorReason
NextFail ==
  \/ Session
  \/ \E ps \in PatternParams : Fetch_enable(0, ps)
  \/ \E c \in inflight : Fetch_enable_resume(c)
  \/ Requests
  \/ FailCommands({0}, ErrorReasons)
  \/ \E c \in inflight : Fetch_failRequest_resume(c)

SpecFail == Init /\ [][NextFail]_vars

\* the upgrade route, up to the session's construction and the socket's close
NextAuth == cdp_get \/ Session

SpecAuth == InitUpgrade /\ [][NextAuth]_vars

\* the life of a session: construction, commands, unparseable texts, close
NextSession == Session \/ InvalidFrame \/ TargetCommands

SpecSession == Init /\ [][NextSession]_vars

\* a command of a page-bound domain is received with params.targetId = t
PageBound(t) ==
  \/ \E cmd \in PageCommands : Page_command(cmd, t)
  \/ \E url \in NavigateUrls : Page_navigate(t, url)
  \/ DOM_getDocument(t)
  \/ \E sel \in Selectors : DOM_querySelector(t, sel) \/ DOM_querySelectorAll(t, sel)
  \/ \E n \in NodeParams :
       \/ DOM_getOuterHTML(t, n)
       \/ DOM_removeNode(t, n)
       \/ \E cmd \in NodeCommands : DOM_nodeCommand(cmd, t, n)
  \/ \E e \in Expressions, v \in ByValueParams : Runtime_evaluate(t, e, v)
  \/ \E compiles \in BOOLEAN, v \in ByValueParams : Runtime_callFunctionOn(t, compiles, v)
  \/ \E o \in ObjectParams : Runtime_getProperties(t, o) \/ Runtime_releaseObject(t, o)
  \/ Runtime_releaseObjectGroup(t)
  \/ \E ps \in PatternParams : Fetch_enable(t, ps)
  \/ Fetch_disable(t)
  \/ \E q \in RequestParams :
       \/ Fetch_continueRequest(t, q)
       \/ Fetch_fulfillRequest(t, q)
       \/ \E e \in ErrorReasons : Fetch_failRequest(t, q, e)
  \/ Fetch_getResponseBody(t)

PageCommandResumes ==
  \/ \E c \in inflight : Page_command_resume(c)
  \/ \E c \in inflight : Page_navigate_request(c)
  \/ \E c \in inflight : Page_navigate_resume(c)
  \/ \E c \in inflight : DOM_getDocument_resume(c)
  \/ \E c \in inflight : Runtime_evaluate_resume(c)
  \/ \E c \in inflight : Fetch_enable_resume(c)

\* the dispatcher: one command of every page-bound domain, sent by a client
\* that closes only targets it was told of
NextDispatch ==
  \/ Session
  \/ \E t \in DOMAIN pages : Target_closeTarget(t)
  \/ \E c \in inflight : Target_closeTarget_resume(c)
  \/ \E t \in TargetParams, cmd \in PageCommands : Page_command(cmd, t)
  \/ \E t \in TargetParams : Page_navigate(t, "/a")
  \/ \E t \in TargetParams : DOM_getDocument(t)
  \/ \E t \in TargetParams : Runtime_evaluate(t, "expr", "absent")
  \/ \E t \in TargetParams : Fetch_enable(t, "absent")
  \/ PageCommandResumes

SpecDispatch == Init /\ [][NextDispatch]_vars

\* navigation under request interception
NextNavigate ==
  \/ Session
  \/ \E ps \in PatternParams : Fetch_enable(0, ps)
  \/ \E c \in inflight : Fetch_enable_resume(c)
  \/ Fetch_disable(0)
  \/ \E c \in inflight : Fetch_disable_resume(c)
  \/ \E q \in RequestParams : Fetch_continueRequest(0, q)
  \/ \E c \in inflight : Fetch_continueRequest_resume(c)
  \/ NavigateCommands
  \/ Releases

SpecNavigate == Init /\ [][NextNavigate]_vars

\* the backend settles every page.goto it can settle: a Page.navigate handler
\* that can be resumed is resumed
SpecNavigateLive ==
  SpecNavigate /\ WF_vars(\E c \in inflight : Page_navigate_resume(c))

\* dialogs and the listeners of Page.handleJavaScriptDialog
NextDialog ==
  \/ Session
  \/ \E t \in TargetParams, accept \in BOOLEAN, promptText \in PromptTexts :
       Page_handleJavaScriptDialog(t, accept, promptText)
  \/ \E p \in livePages : DialogOpens(p)

SpecDialog == Init /\ [][NextDialog]_vars

\* no client of the CDP route
NoClient ==
  /\ upgrade = [status |-> -1]
  /\ wsState = "none"
  /\ NoSession

\* findExistingMoltbotProcess against a sandbox with any process list
InitProcess ==
  /\ NoClient
  /\ \E processes \in ProcessLists :
       sandbox = [EmptySandbox EXCEPT !.processes = processes]
  /\ call = NoCall
  /\ access = NoAccess

NextProcess == findExistingMoltbotProcess \/ findExistingMoltbotProcess_resume

SpecProcess == InitProcess /\ [][NextProcess]_vars

\* waitForProcess for any process, timeout and interval
InitWait == NoClient /\ NoWorker

NextWait == waitForProcess \/ waitForProcess_setTimeout \/ waitForProcess_getStatus

SpecWait == InitWait /\ [][NextWait]_vars

\* the timer fires and proc.getStatus() settles
SpecWaitLive ==
  SpecWait /\ WF_vars(waitForProcess_setTimeout) /\ WF_vars(waitForProcess_getStatus)

\* concurrent calls of ensureMoltbotGateway against one container, which has
\* no process or one gateway already
InitEnsure ==
  /\ NoClient
  /\ \E processes \in {<<>>} \cup {<<[command |-> StartupCommand, status |-> st]>> :
                                     st \in {"starting", "running"}} :
       sandbox = [EmptySandbox EXCEPT !.processes = processes]
  /\ call = NoCall
  /\ access = NoAccess

NextEnsure ==
  \/ \E i \in 1..MaxCalls :
       \/ ensureMoltbotGateway(i)
       \/ ensureMoltbotGateway_listProcesses(i)
       \/ ensureMoltbotGateway_existing(i)
       \/ ensureMoltbotGateway_waitForPort(i)
       \/ ensureMoltbotGateway_kill(i)
       \/ ensureMoltbotGateway_startProcess(i)
       \/ ensureMoltbotGateway_started(i)
  \/ \E k \in 1..MaxProcesses : ProcessChanges(k)

SpecEnsure == InitEnsure /\ [][NextEnsure]_vars

\* a request arrives at a route behind the Access middleware
InitAccess ==
  /\ NoClient
  /\ sandbox = EmptySandbox
  /\ call = NoCall
  /\ \E r \in AccessRequests :
       access = [pc |-> "called", env |-> r.env, req |-> r.req, options |-> r.options,
                 jwt |-> "", verified |-> "not called", status |-> 0, body |-> "",
                 nextCalled |-> FALSE]

NextAccess == accessMiddleware \/ accessMiddleware_resume

SpecAccess == InitAccess /\ [][NextAccess]_vars

\* syncToR2 against a container with or without the rclone flag file, a
\* config file and an earlier timestamp
InitSync ==
  /\ NoClient
  /\ \E flag \in BOOLEAN, config \in {"openclaw", "clawdbot", "none"},
        lastSync \in {"none", "old"} :
       sandbox = [EmptySandbox EXCEPT !.flag = flag, !.config = config,
                                      !.lastSync = lastSync]
  /\ call = NoCall
  /\ access = NoAccess

NextSync ==
  \/ syncToR2
  \/ ensureRcloneConfig_check
  \/ ensureRcloneConfig_mkdir
  \/ ensureRcloneConfig_writeFile
  \/ ensureRcloneConfig_touch
  \/ detectConfigDir_resume
  \/ syncToR2_config
  \/ syncToR2_workspace
  \/ syncToR2_skills
  \/ syncToR2_date
  \/ syncToR2_cat

SpecSync == InitSync /\ [][NextSync]_vars

\* the whole shim
Next ==
  \/ cdp_get
  \/ Session
  \/ InvalidFrame
  \/ DOMCommands
  \/ RuntimeCommands
  \/ TargetCommands
  \/ NavigateCommands
  \/ \E t \in TargetParams, cmd \in PageCommands : Page_command(cmd, t)
  \/ \E c \in inflight : Page_command_resume(c)
  \/ \E t \in TargetParams, accept \in BOOLEAN, promptText \in PromptTexts :
       Page_handleJavaScriptDialog(t, accept, promptText)
  \/ \E p \in livePages : DialogOpens(p)
  \/ FetchCommands
  \/ FailCommands(TargetParams, ErrorReasons)
  \/ Requests
  \/ Releases
  \/ findExistingMoltbotProcess
  \/ findExistingMoltbotProcess_resume
  \/ NextWait
  \/ NextEnsure
  \/ NextSync
  \/ NextAccess

Spec == InitUpgrade /\ [][Next]_vars

\* ---- properties ----------------------------------------------------------------
StrictlyIncreasing(log) ==
  \A i, j \in 1..Len(log) : i < j => log[i] < log[j]

IssuedBelow(log, counter) ==
  \A i \in 1..Len(log) : 1 <= log[i] /\ log[i] < counter

Results(what) == {i \in 1..Len(sent) : sent[i].kind = "result" /\ sent[i].what = what}

Errors(message) == {i \in 1..Len(sent) : sent[i].kind = "error" /\ sent[i].what = message}

Events(method) == {i \in 1..Len(sent) : sent[i].kind = "event" /\ sent[i].what = method}

\* C1: in one session the node ids, and the object ids, are handed out in
\* strictly increasing order, each at least 1 and below its counter, so none is
\* issued twice, also after removeNode, releaseObject and releaseObjectGroup;
\* and neither counter ever decreases.
C1_IdsStrictlyIncreasing ==
  /\ [](/\ StrictlyIncreasing(nodeLog) /\ IssuedBelow(nodeLog, nodeIdCounter)
        /\ StrictlyIncreasing(objectLog) /\ IssuedBelow(objectLog, objectIdCounter))
  /\ [][nodeIdCounter' >= nodeIdCounter /\ objectIdCounter' >= objectIdCounter]_vars

\* a node id was removed, and a node id was allocated afterwards
C1_Witness ==
  \E i \in Results("removed") : \E j \in Results("root") \cup Results("nodeId") :
    /\ i < j
    /\ sent[j].ref > sent[i].ref
    /\ sent[i].ref \notin DOMAIN nodeMap

\* the commands that resolve a node id to act on its element
ElementCommands == NodeCommands \cup {"DOM.removeNode", "DOM.getOuterHTML"}

\* C10: a querySelector that matches nothing answers nodeId 0 and allocates
\* nothing; 0 is never a key of nodeMap; a DOM command that reaches its handler
\* with nodeId 0 never acts on an element: it is answered 'Node not found'
\* without a backend call, and getOuterHTML reads the whole document.
C10_SentinelNode ==
  /\ [](/\ 0 \notin DOMAIN nodeMap
        /\ \A c \in inflight :
             c.cmd \in ElementCommands /\ c.a = 0
               => c.cmd = "DOM.getOuterHTML" /\ c.s = ""
        /\ \A i \in Results("element") \cup Results("removed")
                      \cup Results("outerHTML of element") : sent[i].ref # 0)
  /\ [][/\ \A c \in Suspended("DOM.querySelector") :
             c.ok /\ c.a = 0 /\ c \notin inflight'
               => /\ nodeIdCounter' = nodeIdCounter
                  /\ nodeMap' = nodeMap
                  /\ sent' = Send(<<sendResponse(c.id, "nodeId", 0)>>)
        /\ \A t \in TargetParams :
             /\ PageOf(t) # 0
             /\ \/ DOM_removeNode(t, 0)
                \/ \E cmd \in NodeCommands : DOM_nodeCommand(cmd, t, 0)
             => /\ sent' = Send(<<sendError(NewId, "Node not found", 0)>>)
                /\ inflight' = inflight]_vars

\* a querySelector answered nodeId 0, and a later command naming node 0 was
\* answered 'Node not found'
C10_Witness ==
  \E i \in Results("nodeId") : \E j \in Errors("Node not found") :
    i < j /\ sent[i].ref = 0 /\ sent[j].ref = 0

\* the messages of the errors a handler throws
ErrorMessages == {"Target not found", "Node not found", "Request not found",
                  "selector is required", "expression is required",
                  "url is required", "Unknown method", "backend error"}

Answers(id) == {i \in 1..Len(sent) : sent[i].kind # "event" /\ sent[i].id = id}

\* C2: while the socket is open, a request frame whose handler is still
\* suspended has no answer yet, and one whose handler has ended has exactly one
\* frame carrying its id: an error frame with the thrown message if the handler
\* threw, a result frame if it returned.
C2_OneAnswerPerRequest ==
  wsState = "open" =>
    \A id \in 1..frameCounter :
      IF \E c \in inflight : c.id = id
      THEN Answers(id) = {}
      ELSE /\ Cardinality(Answers(id)) = 1
           /\ \A i \in Answers(id) :
                (sent[i].kind = "error") <=> (sent[i].what \in ErrorMessages)

\* every handler has ended; one returned and one threw
C2_Witness ==
  /\ wsState = "open"
  /\ inflight = {}
  /\ frameCounter >= 2
  /\ \E i, j \in 1..Len(sent) : sent[i].kind = "result" /\ sent[j].kind = "error"

PageEvents(method, id) == {i \in Events(method) : sent[i].by = id}

\* C3: the response of a completed Page.navigate is preceded by exactly one
\* Page.frameNavigated and then exactly one Page.loadEventFired of that command;
\* a navigate that has not completed, or that ended with an error frame, has
\* sent neither event.
C3_NavigateOrder ==
  /\ \A j \in Results("frameId") :
       /\ Cardinality(PageEvents("Page.frameNavigated", sent[j].id)) = 1
       /\ Cardinality(PageEvents("Page.loadEventFired", sent[j].id)) = 1
       /\ \E i \in PageEvents("Page.frameNavigated", sent[j].id) :
            \E k \in PageEvents("Page.loadEventFired", sent[j].id) : i < k /\ k < j
  /\ \A id \in 1..frameCounter :
       (\A j \in Results("frameId") : sent[j].id # id)
         => /\ PageEvents("Page.frameNavigated", id) = {}
            /\ PageEvents("Page.loadEventFired", id) = {}

\* one navigation completed and was answered, another one failed
C3_Witness ==
  /\ Results("frameId") # {}
  /\ Errors("backend error") # {}

\* C4: between session construction and socket close the default target is
\* registered in the target map.
C4_DefaultTargetRegistered ==
  wsState = "open" => defaultTargetId \in DOMAIN pages

\* closeTarget of a target other than the default: the call of page.close()
\* and the code after it leave the browser, the socket and every other target
\* alone
CloseTargetRemovesOnlyThatTarget ==
  /\ \A c \in inflight' \ inflight :
       c.cmd = "Target.closeTarget" /\ c.a # defaultTargetId
         => /\ browser' = browser
            /\ wsState' = wsState
            /\ pages' = pages
            /\ livePages \ {c.page} \subseteq livePages'
  /\ \A c \in Suspended("Target.closeTarget") :
       c \notin inflight' /\ c.ok /\ c.a # defaultTargetId
         => /\ browser' = browser
            /\ wsState' = wsState
            /\ pages' = MapDelete(pages, c.a)

\* C5 as stated: closeTarget of a non-default target removes only that
\* target, and the browser is closed only by the socket closing.
C5_BrowserClosedOnlyBySocket ==
  [][/\ CloseTargetRemovesOnlyThatTarget
     /\ browser = "open" /\ browser' = "closed" => wsState' = "closed"]_vars

\* C5, amended: closeTarget of a non-default target removes only that target,
\* and the browser is closed only by the socket closing or by a Browser.close
\* command.
C5_BrowserClosedBySocketOrCommand ==
  [][/\ CloseTargetRemovesOnlyThatTarget
     /\ browser = "open" /\ browser' = "closed"
          => \/ wsState' = "closed"
             \/ \E c \in inflight' \ inflight : c.cmd = "Browser.close"]_vars

\* a non-default target was closed, the session lives on and a later command
\* was answered
C5_Witness ==
  /\ browser = "open"
  /\ wsState = "open"
  /\ defaultTargetId \in DOMAIN pages
  /\ \E i \in Events("Target.targetDestroyed") :
       /\ sent[i].ref # defaultTargetId
       /\ \E j \in 1..Len(sent) : j > i + 1 /\ sent[j].kind = "result"

ResolutionCommands ==
  {"Fetch.continueRequest", "Fetch.fulfillRequest", "Fetch.failRequest"}

\* C6: no two Fetch.requestPaused events carry the same requestId, and a
\* Fetch.continueRequest for a requestId whose earlier continueRequest was
\* answered with a result is answered with 'Request not found' at once,
\* without a call of the backend.
C6_PausedIdsUniqueAndSpent ==
  /\ [](\A i, j \in Events("Fetch.requestPaused") :
          i # j => sent[i].ref # sent[j].ref)
  /\ [][\A t \in TargetParams, q \in RequestParams :
          /\ Fetch_continueRequest(t, q)
          /\ PageOf(t) # 0
          /\ \E i \in Results("continued") : sent[i].ref = q
          => /\ sent' = Send(<<sendError(NewId, "Request not found", q)>>)
             /\ inflight' = inflight
             /\ raw' = raw]_vars

\* two requests were announced, one was continued, and a later command for
\* its requestId was refused
C6_Witness ==
  /\ Cardinality(Events("Fetch.requestPaused")) >= 2
  /\ \E i \in Results("continued") : \E j \in Errors("Request not found") :
       i < j /\ sent[i].ref = sent[j].ref

\* C7: an entry of pendingRequests whose backend request is already
\* continued, fulfilled or aborted is the entry of a resolution command that
\* has not been answered yet.
C7_NoResolvedEntryKept ==
  \A q \in DOMAIN pendingRequests :
    raw[pendingRequests[q]].state \in {"continued", "fulfilled", "aborted"}
      => \E c \in inflight : c.cmd \in ResolutionCommands /\ c.a = q

\* the entries of request r
EntriesOf(pending, r) == {q \in DOMAIN pending : pending[q] = r}

\* C8: a page with interception on issues a request, the session's flag
\* being set. If the page's last completed Fetch.enable gave no pattern, the
\* request is parked under one new requestId, announced, and left paused; if it
\* gave patterns and none matches the url, the request is continued and not
\* parked.
C8_ParkedOrPassedByPatterns ==
  [][Len(raw') = Len(raw) + 1 =>
      LET r == Len(raw')
          p == raw'[r].page
          last == listeners[p][Len(listeners[p])]
          noPattern == ~last.given \/ Len(last.list) = 0
          matches == \E i \in 1..Len(last.list) :
                       last.list[i] = "" \/ UrlMatch(raw'[r].url, last.list[i])
      IN requestInterceptionEnabled /\ p \in intercepting /\ listeners[p] # <<>>
           => /\ noPattern
                  => /\ Cardinality(EntriesOf(pendingRequests', r)) = 1
                     /\ raw'[r].state = "paused"
                     /\ \A q \in EntriesOf(pendingRequests', r) :
                          sent' = Send(<<sendEvent("Fetch.requestPaused", q, 0)>>)
              /\ ~noPattern /\ ~matches
                  => /\ EntriesOf(pendingRequests', r) = {}
                     /\ raw'[r].state = "continued"]_vars

Aborted == {r \in 1..Len(raw) : raw[r].state = "aborted"}

EarlierKeywords == <<"access", "address", "blocked", "connection">>
EarlierReasons ==
  <<"accessdenied", "addressunreachable", "blockedbyclient", "connectionfailed">>

\* the requestId of an answered Fetch.failRequest is no longer a key of
\* pendingRequests
FailedRequestEvicted ==
  \A i \in Results("aborted") : sent[i].ref \notin DOMAIN pendingRequests

Evaluating == Suspended("Runtime.evaluate") \cup Suspended("Runtime.callFunctionOn")

\* C11: Runtime.releaseObjectGroup leaves the object map empty and the counter
\* alone; an object id that was issued and is no longer in the map never comes
\* back, and Runtime.getProperties for it is answered with the empty result in
\* a result frame; object ids stay strictly increasing across the release.
C11_ReleaseGroupEmptiesMap ==
  /\ [](DOMAIN objectMap \subseteq Range(objectLog) /\ StrictlyIncreasing(objectLog))
  /\ [][/\ \A t \in TargetParams :
             Runtime_releaseObjectGroup(t) /\ PageOf(t) # 0
               => /\ objectMap' = EmptyMap
                  /\ objectIdCounter' = objectIdCounter
                  /\ sent' = Send(<<sendResponse(NewId, "released", 0)>>)
        /\ \A o \in Range(objectLog) \ DOMAIN objectMap : o \notin DOMAIN objectMap'
        /\ \A t \in TargetParams, o \in ObjectParams :
             Runtime_getProperties(t, o) /\ PageOf(t) # 0 /\ o \notin DOMAIN objectMap
               => sent' = Send(<<sendResponse(NewId, "no properties", o)>>)]_vars

\* an object id was issued, the group was released, and getProperties for that
\* id was answered with the empty result
C11_Witness ==
  \E i \in Results("objectId") : \E j \in Results("released") :
    \E k \in Results("no properties") :
      i < j /\ j < k /\ sent[j].ref = 0 /\ sent[k].ref = sent[i].ref

\* C12: Runtime.evaluate and Runtime.callFunctionOn, resumed after the
\* evaluation: with returnByValue false and a non-null object as result the
\* counter advances by one, the object is stored under the id handed out and
\* the response carries that objectId and no value; in every other case the
\* counter and the map stay as they are and the response carries no objectId.
\* No other step advances the counter.
C12_StoresObjectsByReferenceOnly ==
  [][/\ \A c \in Evaluating :
          c \notin inflight' =>
            IF c.ok /\ c.a = 0 /\ c.s = "object"
            THEN /\ objectIdCounter' = objectIdCounter + 1
                 /\ objectMap' = MapSet(objectMap, objectIdCounter, c.s)
                 /\ sent' = Send(<<sendResponse(c.id, "objectId", objectIdCounter)>>)
            ELSE /\ objectIdCounter' = objectIdCounter
                 /\ objectMap' = objectMap
                 /\ \E w \in {"value", "no value", "exceptionDetails"} :
                      sent' = Send(<<sendResponse(c.id, w, 0)>>)
     /\ objectIdCounter' # objectIdCounter
          => \E c \in Evaluating \ inflight' : c.ok /\ c.a = 0 /\ c.s = "object"]_vars

\* one result was stored, one was returned by value, and one was neither
C12_Witness ==
  /\ Results("objectId") # {}
  /\ Results("value") # {}
  /\ Results("no value") # {}

\* C13: when the evaluation of Runtime.evaluate or Runtime.callFunctionOn
\* throws, the handler is answered with a result frame that carries
\* exceptionDetails, and the counter and the object map stay as they are.
C13_EvaluationFailureIsResult ==
  [][\A c \in Evaluating :
       c \notin inflight' /\ ~c.ok
         => /\ sent' = Send(<<sendResponse(c.id, "exceptionDetails", 0)>>)
            /\ UNCHANGED objVars]_vars

\* an evaluation that threw in the page was answered with exceptionDetails
\* after a later command had been answered
C13_Witness ==
  \E i \in Results("exceptionDetails") : \E j \in 1..Len(sent) :
    j < i /\ sent[j].kind # "event" /\ sent[j].id > sent[i].id

\* C14: timingSafeEqual answers true exactly for two equal strings, on the
\* secrets of every request and in the verdict the route acted on.
C14_EqualIffSameString ==
  /\ timingSafeEqual(upgrade.provided.text, upgrade.expected.text).equal
       <=> upgrade.provided.text = upgrade.expected.text
  /\ upgrade.compared
       => (upgrade.equal <=> upgrade.provided.text = upgrade.expected.text)

\* the route compared two secrets of the same length that differ in their
\* last character only
C14_Witness ==
  /\ upgrade.compared /\ ~upgrade.equal
  /\ Len(upgrade.provided.text) = MaxSecretLen
  /\ Len(upgrade.expected.text) = MaxSecretLen
  /\ \A i \in 1..(MaxSecretLen - 1) : upgrade.provided.text[i] = upgrade.expected.text[i]

\* C15: for two secrets of the same length, timingSafeEqual takes one
\* comparison step per character, whether and wherever the secrets differ.
C15_StepsDependOnLengthOnly ==
  Len(upgrade.provided.text) = Len(upgrade.expected.text)
    => /\ timingSafeEqual(upgrade.provided.text, upgrade.expected.text).steps
            = Len(upgrade.expected.text)
       /\ upgrade.compared => upgrade.steps = Len(upgrade.expected.text)

\* the route compared two secrets of the same length that differ in their
\* first character
C15_Witness ==
  /\ upgrade.compared /\ ~upgrade.equal
  /\ Len(upgrade.provided.text) = MaxSecretLen
  /\ Len(upgrade.expected.text) = MaxSecretLen
  /\ upgrade.provided.text[1] # upgrade.expected.text[1]
  /\ upgrade.steps = MaxSecretLen

\* C16: a socket is accepted, and a session constructed, only on status 101,
\* and status 101 is given only to an upgrade request whose secret equals a
\* configured CDP_SECRET while the BROWSER binding exists; an upgrade request
\* is answered 503 when CDP_SECRET is not configured, and 401 when it is
\* configured and the secret is missing or different.
C16_AcceptedOnlyWithSecret ==
  /\ wsState # "none" \/ browser # "none" \/ pages # EmptyMap => upgrade.status = 101
  /\ upgrade.status = 101
       => /\ upgrade.header
          /\ Configured(upgrade.expected)
          /\ upgrade.provided.given
          /\ upgrade.provided.text = upgrade.expected.text
          /\ upgrade.binding
  /\ upgrade.status # 0 /\ upgrade.header
       => /\ ~Configured(upgrade.expected) => upgrade.status = 503
          /\ /\ Configured(upgrade.expected)
             /\ ~upgrade.provided.given \/ upgrade.provided.text # upgrade.expected.text
             => upgrade.status = 401

\* a request with the right secret of full length was accepted and its
\* session constructed
C16_Witness ==
  /\ upgrade.status = 101
  /\ Len(upgrade.expected.text) = MaxSecretLen
  /\ wsState = "open"
  /\ defaultTargetId \in DOMAIN pages

\* the step logs an unparseable text
LogsInvalid ==
  /\ Len(console') = Len(console) + 1
  /\ console'[Len(console')].line = "Invalid JSON received"

\* C17: the receipt of an unparseable text writes no frame, leaves the socket
\* open and changes neither the session nor the backend nor any suspended
\* handler; only the console line is added.
C17_InvalidTextDropped ==
  [][LogsInvalid =>
       /\ wsState = "open" /\ wsState' = "open"
       /\ UNCHANGED <<sent, inflight, sessVars, backVars, histVars>>]_vars

\* a request frame received after an unparseable text was answered with a result
C17_Witness ==
  /\ wsState = "open"
  /\ \E i \in Logged("Invalid JSON received") : \E j \in 1..Len(sent) :
       sent[j].kind = "result" /\ sent[j].id > console[i].at

\* C18: the server's socket changes its state only by the construction ending
\* (to open, or to closed with 1011 when launch or newPage failed) and by the
\* peer closing it; a step of a command handler never changes it, and a failed
\* construction never leaves the socket accepted or open.
C18_ClosedOnlyByFailedConstruction ==
  /\ [](Logged("Browser launch failed") # {} => wsState \notin {"accepted", "open"})
  /\ [][wsState' # wsState =>
          \/ wsState = "accepted" /\ wsState' \in {"open", "closed early"}
          \/ /\ wsState = "accepted" /\ wsState' = "closed 1011"
             /\ pages' = EmptyMap
             /\ Logged("Browser launch failed") = {}
          \/ wsState = "closed early" /\ wsState' = "closed"
          \/ /\ wsState = "open" /\ wsState' = "closed"
             /\ UNCHANGED <<sent, inflight, frameCounter>>]_vars

\* a handler threw, its error frame was sent, and a later command was answered
\* on the same socket
C18_Witness ==
  /\ wsState = "open"
  /\ \E i, j \in 1..Len(sent) :
       i < j /\ sent[i].kind = "error" /\ sent[j].kind = "result"

\* C19: the first frame of a connection is the Target.targetCreated event of
\* the default target, and a request frame is received only on an open socket
\* whose browser, default page and default target have been created.
C19_TargetCreatedFirst ==
  /\ [](sent # <<>> =>
          /\ defaultTargetId # 0
          /\ sent[1] = sendEvent("Target.targetCreated", defaultTargetId, 0))
  /\ [][frameCounter' # frameCounter =>
          /\ wsState = "open"
          /\ browser # "none"
          /\ pageCounter >= 1
          /\ defaultTargetId # 0
          /\ sent # <<>>]_vars

\* the event of the default target is followed by the response to a command
C19_Witness ==
  /\ Len(sent) >= 2
  /\ sent[1].what = "Target.targetCreated"
  /\ sent[2].kind = "result"

\* C20: once the socket is closed and a session has been constructed, the
\* session's browser is closed, unless closing it threw and was logged.
C20_BrowserClosedWithSocket ==
  /\ wsState = "closed"
  /\ pages # EmptyMap
  /\ Logged("Error closing browser") = {}
  => browser = "closed"

\* a handler of a page-bound domain is suspended at a backend call
PageBoundCommands ==
  PageCommands \cup ElementCommands \cup ResolutionCommands
    \cup {"Page.navigate", "DOM.getDocument", "DOM.querySelector",
          "DOM.querySelectorAll", "Runtime.evaluate", "Runtime.callFunctionOn",
          "Fetch.enable", "Fetch.disable"}

\* C21: a command of a page-bound domain (Page, Runtime, DOM, Input, Emulation,
\* Fetch) whose targetId is not a key of the target map, or that names none
\* while the default target is not registered, is answered with one 'Target
\* not found' error frame and its handler does not run: no backend call is
\* awaited, no registry and no backend state changes, no event is written.
C21_TargetNotFound ==
  /\ [](\A c \in inflight : c.cmd \in PageBoundCommands => c.page # 0)
  /\ [][\A t \in TargetParams :
          ResolveTarget(t) \notin DOMAIN pages /\ PageBound(t)
            => /\ sent' = Send(<<sendError(NewId, "Target not found", ResolveTarget(t))>>)
               /\ inflight' = inflight
               /\ UNCHANGED <<sessVars, backVars>>]_vars

\* the default target was closed and a later command that named no target was
\* answered 'Target not found'; so was a command naming a target never created
C21_Witness ==
  /\ defaultTargetId \notin DOMAIN pages
  /\ \E i \in Results("success") : \E j \in Errors("Target not found") :
       i < j /\ sent[i].ref = defaultTargetId /\ sent[j].ref = defaultTargetId
  /\ \E k \in Errors("Target not found") : sent[k].ref > targetUuid

\* C22: DOM.getAttributes, setAttributeValue, focus, getBoxModel,
\* scrollIntoViewIfNeeded, removeNode, setNodeValue and setFileInputFiles that
\* reach their handler with a node id that is not a key of nodeMap (never
\* allocated, or evicted by removeNode) are answered with one 'Node not found'
\* error frame, call nothing on the backend and leave nodeMap as it is.
C22_NodeNotFound ==
  [][\A t \in TargetParams, n \in NodeParams :
       /\ PageOf(t) # 0
       /\ n \notin DOMAIN nodeMap
       /\ \/ DOM_removeNode(t, n)
          \/ \E cmd \in NodeCommands : DOM_nodeCommand(cmd, t, n)
       => /\ sent' = Send(<<sendError(NewId, "Node not found", n)>>)
          /\ inflight' = inflight
          /\ nodeMap' = nodeMap
          /\ UNCHANGED backVars]_vars

\* a node was allocated and then evicted by removeNode, and a later command
\* naming it was answered 'Node not found'
C22_Witness ==
  \E i \in Results("removed") : \E j \in Errors("Node not found") :
    /\ i < j
    /\ sent[i].ref = sent[j].ref
    /\ sent[j].ref \in Range(nodeLog)
    /\ sent[j].ref \notin DOMAIN nodeMap

GatewayMarkers ==
  {<<"start-openclaw.sh">>, <<"openclaw", "gateway">>, <<"start-moltbot.sh">>,
   <<"clawdbot", "gateway">>}

CliMarkers ==
  {<<"openclaw", "devices">>, <<"openclaw", "--version">>, <<"openclaw", "onboard">>,
   <<"clawdbot", "devices">>, <<"clawdbot", "--version">>}

\* the processes of a list that count as a live gateway
LiveGateways(processes) ==
  {i \in 1..Len(processes) :
     /\ \E m \in GatewayMarkers : CommandIncludes(processes[i].command, m)
     /\ \A m \in CliMarkers : ~CommandIncludes(processes[i].command, m)
     /\ processes[i].status \in {"starting", "running"}}

Found == call.op = "findExistingMoltbotProcess" /\ call.pc = "returned"

\* C23: findExistingMoltbotProcess returns the first process, in list order,
\* whose command contains a gateway marker and no CLI marker and whose status
\* is 'starting' or 'running'; it returns null when the list has no such
\* process or when listProcesses throws.
C23_FirstLiveGateway ==
  Found =>
    /\ call.threw => call.result = 0
    /\ ~call.threw /\ LiveGateways(sandbox.processes) = {} => call.result = 0
    /\ ~call.threw /\ LiveGateways(sandbox.processes) # {} =>
         /\ call.result \in LiveGateways(sandbox.processes)
         /\ \A i \in LiveGateways(sandbox.processes) : call.result <= i

\* the second process of the list was returned: the first one is a gateway
\* started by its script whose command also names a CLI subcommand
C23_Witness ==
  /\ Found
  /\ call.result = 2
  /\ sandbox.processes[1].status = "running"
  /\ \E m \in GatewayMarkers : CommandIncludes(sandbox.processes[1].command, m)
  /\ \E m \in CliMarkers : CommandIncludes(sandbox.processes[1].command, m)

\* authentication is skipped
Bypassed == access.env.DEV_MODE = "true" \/ access.env.E2E_TEST_MODE = "true"

\* Access is configured, a JWT came with the request and it was verified
Verified ==
  /\ access.env.CF_ACCESS_TEAM_DOMAIN # ""
  /\ access.env.CF_ACCESS_AUD # ""
  /\ access.jwt # ""
  /\ access.verified = "ok"

\* C24: the Access middleware calls next() only when DEV_MODE or E2E_TEST_MODE
\* is 'true', or when CF_ACCESS_TEAM_DOMAIN and CF_ACCESS_AUD are both set, a
\* JWT is present and verifyAccessJWT succeeded. Otherwise next() is never
\* called and the response is 500 when Access is not configured (whether or
\* not a JWT came), a 302 redirect when the JWT is missing on an html route
\* with redirectOnMissing, and 401 when the JWT is missing or invalid.
C24_NextOnlyWhenAuthorized ==
  /\ access.pc \notin {"none", "called"} /\ access.nextCalled => Bypassed \/ Verified
  /\ access.pc = "returned" /\ ~(Bypassed \/ Verified) =>
       /\ ~access.nextCalled
       /\ access.status =
            IF access.env.CF_ACCESS_TEAM_DOMAIN = "" \/ access.env.CF_ACCESS_AUD = ""
            THEN 500
            ELSE IF /\ access.verified = "not called"
                    /\ access.options.type = "html"
                    /\ access.options.redirectOnMissing = "true"
            THEN 302
            ELSE 401

\* a request with a JWT in its cookie but without CF_ACCESS_AUD was answered
\* 500 and next() was not called
C24_Witness ==
  /\ access.pc = "returned"
  /\ ~Bypassed
  /\ access.env.CF_ACCESS_TEAM_DOMAIN # ""
  /\ access.env.CF_ACCESS_AUD = ""
  /\ Len(access.req.cookies) = 1
  /\ access.req.cookies[1] = [name |-> "CF_Authorization", value |-> "cookie.jwt"]
  /\ access.status = 500
  /\ ~access.nextCalled

\* the runs of a command in the container
Runs(cmd) == {i \in 1..Len(sandbox.execd) : sandbox.execd[i].cmd = cmd}

Synced == call.op = "syncToR2" /\ call.pc = "returned"

\* C25: syncToR2 returns success only after the config sync command
\* succeeded. With missing R2 credentials it returns 'R2 storage is not
\* configured' and no command runs in the sandbox; when no config directory
\* is detected it returns 'Sync aborted: no config file found'; when the
\* config sync command fails it returns 'Config sync failed', and neither the
\* workspace sync nor the skills sync runs nor is the timestamp written.
C25_SuccessOnlyAfterConfigSync ==
  /\ Synced /\ call.success =>
       \E i \in Runs("rclone sync config") : sandbox.execd[i].out = "ok"
  /\ call.op = "syncToR2" /\ ~(/\ call.env.R2_ACCESS_KEY_ID
                               /\ call.env.R2_SECRET_ACCESS_KEY
                               /\ call.env.CF_ACCOUNT_ID) =>
       /\ Synced
       /\ ~call.success
       /\ call.error = "R2 storage is not configured"
       /\ sandbox.execd = <<>>
  /\ \A i \in Runs("test -f config") :
       Synced /\ sandbox.execd[i].stdout \notin {"openclaw", "clawdbot"} =>
         /\ ~call.success
         /\ call.error = "Sync aborted: no config file found"
  /\ \A i \in Runs("rclone sync config") :
       sandbox.execd[i].out = "failed" =>
         /\ Runs("rclone sync workspace") = {}
         /\ Runs("rclone sync skills") = {}
         /\ Runs("date > last-sync") = {}
         /\ sandbox.lastSync # "new"
         /\ Synced => ~call.success /\ call.error = "Config sync failed"

\* rclone was configured in this call, the config directory was found and the
\* config sync failed: syncToR2 returned 'Config sync failed' after six commands
C25_Witness ==
  /\ Synced
  /\ call.error = "Config sync failed"
  /\ Runs("touch flag") # {}
  /\ Len(sandbox.execd) = 6
  /\ sandbox.execd[6] = [cmd |-> "rclone sync config", out |-> "failed", stdout |-> ""]

\* the session's registries
registries == <<pages, nodeMap, objectMap, pendingRequests>>

\* a step of the handler of a frame later than c's: the frame is received, or
\* its suspended handler goes on
LaterHandlerStep(c) ==
  \/ frameCounter' # frameCounter
  \/ \E d \in inflight : d.id > c.id /\ d \notin inflight'

\* C26: command handling is serialized within one session: while the handler
\* of a frame is in flight (suspended at a backend call, not yet answered), no
\* handler of a later frame changes the session's registries (targets,
\* nodeMap, objectMap, pendingRequests).
C26_HandlersSerialized ==
  [][\A c \in inflight \cap inflight' :
       LaterHandlerStep(c) => UNCHANGED registries]_vars

\* the answers that carry a freshly allocated node id
NodeAnswers ==
  {i \in Results("root") \cup Results("nodeId") \cup Results("nodeIds") :
     sent[i].ref # 0}

\* C27: however the in-flight DOM.getDocument, DOM.querySelector and
\* DOM.querySelectorAll handlers of a session interleave, no node id comes out
\* of two allocations: every allocation takes ids that were never handed out
\* and moves nodeIdCounter past them in the same step.
C27_NodeIdsNeverCollide ==
  /\ [](/\ \A i, j \in 1..Len(nodeLog) : i # j => nodeLog[i] # nodeLog[j]
        /\ \A i, j \in NodeAnswers : i # j => sent[i].ref # sent[j].ref)
  /\ [][\A k \in (Len(nodeLog) + 1)..Len(nodeLog') :
          /\ nodeLog'[k] \notin Range(nodeLog)
          /\ nodeIdCounter <= nodeLog'[k]
          /\ nodeLog'[k] < nodeIdCounter']_vars

\* two allocating handlers were in flight together and ended in the other
\* order: a querySelectorAll was answered with its node ids before the
\* command of an earlier frame was answered with its own
C27_Witness ==
  \E i \in NodeAnswers \cap Results("nodeIds") : \E j \in NodeAnswers :
    /\ i < j
    /\ sent[i].id > sent[j].id
    /\ Cardinality({k \in 1..Len(nodeLog) : nodeLog[k] < sent[j].ref}) >= 2

\* the resolution handlers that are suspended at their backend call
Resolving == {c \in inflight : c.cmd \in ResolutionCommands}

\* C28: when two resolution commands (Fetch.continueRequest, fulfillRequest,
\* failRequest) for one parked requestId are in flight together, only one of
\* them calls continue/respond/abort on the raw request: while the handler
\* that resolves the request is suspended at that call, a later command for
\* the same requestId is answered 'Request not found' and is never suspended
\* at a backend call of its own.
C28_ResolvedByOneCommand ==
  \A c, d \in Resolving : c.a = d.a /\ c.ok => c = d

\* the request that the navigation of c issued is parked and unresolved
Parked(c) ==
  /\ c.a # 0
  /\ raw[c.a].state = "paused"
  /\ \E q \in DOMAIN pendingRequests : pendingRequests[q] = c.a

\* C29 as stated: while the request issued by an in-flight Page.navigate is
\* parked and unresolved, Page.navigate is not answered: no timeout and no
\* other command releases the navigation.
C29_NavigateNeverAnswered ==
  [][\A c \in Suspended("Page.navigate") : Parked(c) => c \in inflight']_vars

\* the Page.navigate of frame id is in flight and the request it issued was
\* parked and has been continued by a Fetch.continueRequest
NavigationContinued(id) ==
  \E c \in Suspended("Page.navigate") :
    /\ c.id = id
    /\ c.a # 0
    /\ raw[c.a].state = "continued"
    /\ raw[c.a].page \in intercepting

\* C30: a Fetch.continueRequest for a request parked during an in-flight
\* Page.navigate is handled at once, while the navigate is still suspended,
\* and once the request is continued the navigate is eventually answered on
\* the open socket: an intercepted navigation does not deadlock the session.
C30_NavigateAnsweredAfterContinue ==
  /\ [][\A c \in Suspended("Page.navigate"), q \in RequestParams :
          /\ Parked(c)
          /\ q \in DOMAIN pendingRequests
          /\ pendingRequests[q] = c.a
          /\ PageOf(0) # 0
          /\ Fetch_continueRequest(0, q)
          => /\ c \in inflight'
             /\ \E d \in inflight' : d.id = NewId /\ d.cmd = "Fetch.continueRequest"]_vars
  /\ \A id \in 1..MaxFrames :
       NavigationContinued(id) ~> (Answers(id) # {} \/ wsState # "open")

\* a Fetch.continueRequest that arrived after a Page.navigate was answered
\* first, and the navigate was then answered with its frame id
C30_Witness ==
  \E i \in Results("continued") : \E j \in Results("frameId") :
    /\ i < j
    /\ sent[j].id < sent[i].id


\* ---- C31: every target id in the target map refers to a page that is still
\* open in the backend, and no two target ids refer to the same page: no entry
\* outlives its page, neither after Browser.close nor during or after
\* Target.closeTarget
C31_TargetsAreLivePages ==
  wsState = "open" =>
    /\ \A t \in DOMAIN pages : PageLive(pages[t])
    /\ \A t, u \in DOMAIN pages : pages[t] = pages[u] => t = u

\* ---- C32: every target id in the target map has had a Target.targetCreated
\* event sent for it by the time the command that registered it is answered,
\* also when the navigation of Target.createTarget fails
Registering(t) ==
  \E c \in inflight :
    /\ c.cmd \in {"Target.createTarget goto", "Target.createTarget title"}
    /\ c.a = t

C32_RegisteredWithCreationEvent ==
  wsState = "open" =>
    \A t \in DOMAIN pages :
      \/ Registering(t)
      \/ \E k \in DOMAIN sent : /\ sent[k].kind = "event"
                                /\ sent[k].what = "Target.targetCreated"
                                /\ sent[k].ref = t

\* ---- C33: each request the backend reports is parked at most once: it gets
\* at most one pendingRequests entry and at most one Fetch.requestPaused
\* event, however many times Fetch.enable was called on the page, and a
\* request that was parked is never also continued automatically
C33_ParkedAtMostOnce ==
  [][Len(raw') = Len(raw) + 1 =>
      LET r == Len(raw') IN
        /\ Cardinality(EntriesOf(pendingRequests', r)) <= 1
        /\ Len(sent') <= Len(sent) + 1
        /\ EntriesOf(pendingRequests', r) # {} => raw'[r].state = "paused"]_vars

\* ---- C34: Fetch.disable turns interception off and leaves pendingRequests
\* unchanged: requests parked before the disable stay parked and are still
\* found by continueRequest, fulfillRequest and failRequest, which call the
\* backend for them; while interception is off a request the backend reports
\* adds no entry to pendingRequests and no Fetch.requestPaused event is sent
Addressing(q) ==
  \/ Fetch_continueRequest(0, q)
  \/ Fetch_fulfillRequest(0, q)
  \/ Fetch_failRequest(0, q, <<"TimeOut">>)

C34_DisableKeepsParkedRequests ==
  /\ [][\A t \in TargetParams :
          PageOf(t) # 0 /\ Fetch_disable(t)
            => ~requestInterceptionEnabled' /\ pendingRequests' = pendingRequests]_vars
  /\ [][\A c \in inflight :
          Fetch_disable_resume(c)
            => UNCHANGED <<requestInterceptionEnabled, pendingRequests>>]_vars
  /\ [][\A q \in DOMAIN pendingRequests :
          ~requestInterceptionEnabled /\ PageOf(0) # 0 /\ Addressing(q)
            => \E c \in inflight' : c.id = NewId /\ c.a = q]_vars
  /\ [][~requestInterceptionEnabled /\ Len(raw') = Len(raw) + 1
          => pendingRequests' = pendingRequests /\ sent' = sent]_vars

\* a request was parked, Fetch.disable was answered, a second request was then
\* reported without being parked, and the parked one was continued afterwards
C34_Witness ==
  /\ ~requestInterceptionEnabled
  /\ Len(raw) = 2 /\ requestUuid = 1
  /\ \E i \in Results("disabled") : \E j \in Results("continued") : i < j

\* ---- C35: DOM.getOuterHTML given a non-zero node id that is not in nodeMap
\* (never allocated, or evicted by removeNode) fails with 'Node not found';
\* only node id 0 falls back to the whole document's HTML
C35_OuterHTMLOfUnknownNodeFails ==
  [][\A t \in TargetParams, n \in NodeParams :
       /\ PageOf(t) # 0
       /\ n # 0
       /\ n \notin DOMAIN nodeMap
       /\ DOM_getOuterHTML(t, n)
       => /\ sent' = Send(<<sendError(NewId, "Node not found", n)>>)
          /\ inflight' = inflight]_vars

\* ---- C36: a successful DOM.removeNode(n) removes exactly n from nodeMap:
\* every other node id keeps its selector and nodeIdCounter is unchanged, and
\* any later DOM command naming n fails with 'Node not found'; if the in-page
\* removal throws, n stays in nodeMap
Removed(n) == \E i \in Results("removed") : sent[i].ref = n

NamesNode(t, n) ==
  \/ DOM_getOuterHTML(t, n)
  \/ DOM_removeNode(t, n)
  \/ \E cmd \in NodeCommands : DOM_nodeCommand(cmd, t, n)

C36_RemoveNodeEvictsExactlyN ==
  /\ [][\A c \in Suspended("DOM.removeNode") :
          DOM_removeNode_resume(c)
            => /\ nodeIdCounter' = nodeIdCounter
               /\ DOMAIN nodeMap' = IF c.ok THEN DOMAIN nodeMap \ {c.a} ELSE DOMAIN nodeMap
               /\ \A x \in DOMAIN nodeMap' : nodeMap'[x] = nodeMap[x]]_vars
  /\ [][\A t \in TargetParams, n \in NodeParams :
          Removed(n) /\ PageOf(t) # 0 /\ NamesNode(t, n)
            => /\ sent' = Send(<<sendError(NewId, "Node not found", n)>>)
               /\ inflight' = inflight]_vars

\* ---- C37: after any number of Page.handleJavaScriptDialog calls on a page,
\* a dialog that opens is answered exactly once, accepted (with the prompt
\* text) or dismissed as the most recent call specified: listeners installed
\* by earlier calls do not also act on it
C37_DialogAnsweredAsLastCall ==
  \A i \in DOMAIN opened :
    LET d == opened[i] IN
      d.listeners # <<>> =>
        d.answers = <<DialogAnswer(d.listeners[Len(d.listeners)])>>

\* ---- C38: after the socket's close event the session is cancelled: no
\* handler that was still in flight at that moment changes the registries
\* afterwards (allocates a node or object id, registers a target, adds or
\* removes a pendingRequests entry) or sends a frame
C38_NoHandlerStepAfterClose ==
  [][wsState = "closed" /\ inflight' # inflight
       => UNCHANGED <<registries, nodeIdCounter, objectIdCounter, sent>>]_vars

\* ---- C39: waitForProcess terminates for every process: it polls at most
\* ceil(timeoutMs / pollIntervalMs) times, returns as soon as a refreshed
\* status is neither 'running' nor 'starting', returns without polling when the
\* initial status is already final, and returns normally (it does not throw)
\* when the attempts run out while the process is still running
Waiting == call.op = "waitForProcess"

Final(status) == status \notin {"running", "starting"}

\* n polls fit into the timeout: n <= ceil(timeoutMs / pollIntervalMs)
WithinTimeout(n) == n = 0 \/ (n - 1) * call.pollIntervalMs < call.timeoutMs

AttemptsRunOut == ~WithinTimeout(call.attempts + 1)

C39_WaitForProcessTerminates ==
  /\ [](Waiting =>
          /\ WithinTimeout(call.attempts)
          /\ Final(call.currentStatus) => call.pc = "returned"
          /\ Final(call.proc.status) => call.pc = "returned" /\ call.attempts = 0
          /\ AttemptsRunOut /\ ~Final(call.currentStatus) => call.pc = "returned")
  /\ (Waiting ~> Waiting /\ call.pc \in {"returned", "rejected"})

\* the process was still running when the last of three polls was made
C39_Witness ==
  /\ Waiting
  /\ call.pc = "returned"
  /\ call.attempts = 3
  /\ call.proc.getStatus
  /\ call.currentStatus = "running"

\* ---- C40: when several ensureMoltbotGateway calls run concurrently against
\* one sandbox, at most one gateway process is started: the sandbox never has
\* two gateways that are starting or running; a call that finds a 'starting'
\* or 'running' gateway waits for it on the port instead of starting another;
\* and no call kills a gateway before the full startup timeout has elapsed
C40_AtMostOneGatewayStarted ==
  /\ [](Cardinality(LiveGateways(sandbox.processes)) <= 1)
  /\ [][\A i \in 1..MaxCalls :
          ensureMoltbotGateway_existing(i) /\ ScanProcesses(Callers[i].listed, 1) # 0
            => sandbox' = sandbox /\ call'.of[i].pc = "waitForPort"]_vars
  /\ [][\A k \in 1..Len(sandbox.processes) :
          sandbox.processes[k].status # "killed" /\ sandbox'.processes[k].status = "killed"
            => \E i \in 1..MaxCalls : /\ At(i, "waitForPort")
                                      /\ Callers[i].existing = k
                                      /\ call'.of[i].outcome = "timeout"]_vars

====
